---- MODULE Spec2Model ----
(***************************************************************************)
(* Model of PortfolioCalculator (src/portfolio_calculator.py): the         *)
(* Position Tracker, the Valuation Engine, the Returns Engine and the      *)
(* Attribution Engine.                                                     *)
(*                                                                         *)
(* Dates are the integers 1..MaxDate+1 (calendar days).  Amounts, prices   *)
(* and quantities are integers; every quotient the code computes is kept   *)
(* as an exact fraction <<numerator, denominator>> in lowest terms.        *)
(* A transaction label (the column Tipo) is the sequence of its            *)
(* characters.                                                             *)
(***************************************************************************)
EXTENDS Integers, Sequences, FiniteSets, TLC

\* ------------------------------------------------------------------ bounds
MaxDate == 3
MaxOps == 3

\* ------------------------------------------------------- exact arithmetic
Abs(x) == IF x < 0 THEN -x ELSE x

RECURSIVE GCD(_, _)
GCD(a, b) == IF b = 0 THEN a ELSE GCD(b, a % b)

\* the fraction n/d (d # 0) in lowest terms with a positive denominator
Frac(n, d) ==
    LET g == GCD(Abs(n), Abs(d))
        s == IF d < 0 THEN -1 ELSE 1
    IN  <<(s * n) \div g, (s * d) \div g>>

FromInt(n) == <<n, 1>>
FMul(x, y) == Frac(x[1] * y[1], x[2] * y[2])
FAdd(x, y) == Frac(x[1] * y[2] + y[1] * x[2], x[2] * y[2])
FDiv(x, y) == Frac(x[1] * y[2], x[2] * y[1])

\* Python's None and a value that is not None
None == <<>>
Some(x) == <<x>>
IsNone(o) == o = <<>>
TheValue(o) == o[1]

\* ------------------------------------------------------ transaction labels
Compra == <<"C", "o", "m", "p", "r", "a">>
Venta == <<"V", "e", "n", "t", "a">>
Cupon == <<"C", "u", "p", "o", "n">>
Coupon == <<"C", "o", "u", "p", "o", "n">>
Dividendo == <<"D", "i", "v", "i", "d", "e", "n", "d", "o">>
Amortizacion == <<"A", "m", "o", "r", "t", "i", "z", "a", "c", "i", "o", "n">>
Flujo == <<"F", "l", "u", "j", "o">>
Canje == <<"C", "a", "n", "j", "e">>
CompraLower == <<"c", "o", "m", "p", "r", "a">>
CuponUpper == <<"C", "U", "P", "O", "N">>

\* str.lower(), one character
LowerChar(c) ==
    CASE c = "A" -> "a" [] c = "C" -> "c" [] c = "D" -> "d" [] c = "F" -> "f"
      [] c = "I" -> "i" [] c = "V" -> "v" [] c = "U" -> "u" [] c = "P" -> "p"
      [] c = "O" -> "o" [] c = "N" -> "n" [] c = "M" -> "m" [] c = "R" -> "r"
      [] c = "E" -> "e" [] c = "T" -> "t" [] OTHER -> c

\* (a slip) the label is compared as it is written
Lower_AsWritten(s) == s

Lower(s) == [i \in 1..Len(s) |-> LowerChar(s[i])]

\* keyword in s (substring test)
Contains(s, keyword) ==
    \E i \in 0..(Len(s) - Len(keyword)) :
        \A j \in 1..Len(keyword) : s[i + j] = keyword[j]

\* the keyword lists of lines 194 and 201 (accent-free spellings; the accented
\* ones are written with the character "o'")
CouponKeywords ==
    { <<"c", "u", "p", "o'", "n">>, <<"c", "u", "p", "o", "n">>,
      <<"d", "i", "v", "i", "d", "e", "n", "d", "o">>,
      <<"c", "o", "u", "p", "o", "n">>,
      <<"d", "i", "v", "i", "d", "e", "n", "d">>,
      <<"i", "n", "t", "e", "r", "e", "s">>,
      <<"i", "n", "t", "e", "r", "e", "s", "t">> }

AmortizationKeywords ==
    { <<"a", "m", "o", "r", "t", "i", "z", "a", "c", "i", "o'", "n">>,
      <<"a", "m", "o", "r", "t", "i", "z", "a", "c", "i", "o", "n">>,
      <<"a", "m", "o", "r", "t", "i", "z", "a", "t", "i", "o", "n">> }

IsCouponDividend(tipo) == \E k \in CouponKeywords : Contains(Lower(tipo), k)
IsAmortization(tipo) == \E k \in AmortizationKeywords : Contains(Lower(tipo), k)

\* ------------------------------------------------------------------ state
VARIABLES
    operaciones,        \* self.operaciones, sorted by Fecha
    precios,            \* self.precios, long format, sorted by Fecha
    start_date,         \* self.start_date (None or a date)
    date_range,         \* self.date_range
    pc,                 \* the statement the calculator is at
    initial_positions,  \* positions of _get_initial_positions
    snap_i,             \* index of the next row of ops_until_start
    date_i,             \* index in date_range of the date being valued
    op_i,               \* index of the next row of ops_until_date
    positions,          \* positions of calculate_portfolio_value
    cash_flow,          \* cash_flow of calculate_portfolio_value
    portfolio_values,   \* portfolio_values (list of rows)
    portfolio_data,     \* self.portfolio_data (None or the valuation frame)
    row_i,              \* index of the next row of portfolio_data
    initial_value,      \* initial_value of calculate_daily_returns
    previous_value,     \* previous_value of calculate_daily_returns
    returns,            \* the rows built by the loop of calculate_daily_returns
    daily_returns,      \* self.daily_returns (None or the returns frame)
    assets,             \* assets of calculate_attribution_analysis
    asset_i,            \* index in assets of the asset being replayed
    aop_i,              \* index of the next row of asset_ops
    accumulators,       \* total_invested, current_quantity, ... of the asset
    attribution_data,   \* attribution_data (list of records)
    attribution,        \* the frame calculate_attribution_analysis returned
    environment,        \* what the interpreter and numpy decide, fixed for
                        \* the life of the process
    metrics,            \* self.metrics (None or the dictionary)
    result              \* the last call on the calculator and what it
                        \* returned or raised

vars == <<operaciones, precios, start_date, date_range, pc, initial_positions,
          snap_i, date_i, op_i, positions, cash_flow, portfolio_values,
          portfolio_data, row_i, initial_value, previous_value, returns,
          daily_returns, assets, asset_i, aop_i, accumulators,
          attribution_data, attribution, environment, metrics, result>>

inputs == <<operaciones, precios, start_date, date_range, environment>>
calls_vars == <<metrics, result>>
valuation_vars == <<initial_positions, snap_i, date_i, op_i, positions,
                    cash_flow, portfolio_values>>
returns_vars == <<portfolio_data, row_i, initial_value, previous_value,
                  returns, daily_returns>>
attribution_vars == <<assets, asset_i, aop_i, accumulators, attribution_data,
                      attribution>>

Assets == {"A", "B"}

\* -------------------------------------------------------- Position Tracker
NoPosition == [cantidad |-> 0, precio_promedio |-> FromInt(0)]

\* if asset not in positions: positions[asset] = {'cantidad': 0, 'precio_promedio': 0}
WithAsset(pos, asset) ==
    [a \in (DOMAIN pos) \cup {asset} |->
        IF a \in DOMAIN pos THEN pos[a] ELSE NoPosition]

\* the Compra branch of _get_initial_positions on one position
InitialCompra(p, cantidad, precio) ==
    LET old_qty == p.cantidad
        old_avg == p.precio_promedio
        new_qty == old_qty + cantidad
        new_avg == IF new_qty > 0
                   THEN FDiv(FAdd(FMul(FromInt(old_qty), old_avg),
                                  FromInt(cantidad * precio)),
                             FromInt(new_qty))
                   ELSE FromInt(precio)
    IN  [cantidad |-> new_qty, precio_promedio |-> new_avg]

\* the Venta branch of _get_initial_positions on one position
InitialVenta(p, cantidad) == [p EXCEPT !.cantidad = @ - cantidad]

\* one iteration of the loop of _get_initial_positions
InitialPositionsOp(pos, op) ==
    LET asset == op.Activo
        tipo == op.Tipo
        q == WithAsset(pos, asset)
    IN  IF tipo = Compra
        THEN [q EXCEPT ![asset] =
                 InitialCompra(@, op.Cantidad, op.Precio_Concertacion)]
        ELSE IF tipo = Venta
        THEN [q EXCEPT ![asset] = InitialVenta(@, op.Cantidad)]
        ELSE q

\* (a slip) the average cost is overwritten by the price of the last Buy
ReplayCompra_LastPrice(p, cantidad, precio) ==
    [cantidad |-> p.cantidad + cantidad, precio_promedio |-> FromInt(precio)]

\* the Compra branch of calculate_portfolio_value on one position
ReplayCompra(p, cantidad, precio) ==
    LET old_qty == p.cantidad
        old_avg == p.precio_promedio
        new_qty == old_qty + cantidad
        new_avg == IF new_qty > 0
                   THEN FDiv(FAdd(FMul(FromInt(old_qty), old_avg),
                                  FromInt(cantidad * precio)),
                             FromInt(new_qty))
                   ELSE FromInt(precio)
    IN  [cantidad |-> new_qty, precio_promedio |-> new_avg]

\* (a slip) the quantity is floored at zero
ReplayVenta_Floored(p, cantidad) ==
    [p EXCEPT !.cantidad = IF @ - cantidad < 0 THEN 0 ELSE @ - cantidad]

\* (a slip) a Sell of more than the holding is skipped
ReplayVenta_HeldOnly(p, cantidad) ==
    IF p.cantidad >= cantidad THEN [p EXCEPT !.cantidad = @ - cantidad] ELSE p

\* the Venta branch of calculate_portfolio_value on one position
ReplayVenta(p, cantidad) == [p EXCEPT !.cantidad = @ - cantidad]

\* (a slip) an Amortization lowers the nominal
ReplayAmortizacion_Nominal(p, cantidad) == [p EXCEPT !.cantidad = @ - cantidad]

\* the Amortization branch (pass) on one position
ReplayAmortizacion(p, cantidad) == p

\* (a slip) cash_flow = monto
ReplayFlujo_Assign(cash, monto) == monto

\* the Flujo branch: cash_flow += monto
ReplayFlujo(cash, monto) == cash + monto

\* (a slip) a label no branch knows is replayed as a Sell
ReplayOp_UnknownSells(pos, cash, op) ==
    LET asset == op.Activo
        tipo == op.Tipo
        q == WithAsset(pos, asset)
    IN  IF tipo = Compra
        THEN [positions |-> [q EXCEPT ![asset] =
                  ReplayCompra(@, op.Cantidad, op.Precio_Concertacion)],
              cash_flow |-> cash]
        ELSE IF tipo = Venta \/ (~IsCouponDividend(tipo) /\ ~IsAmortization(tipo)
                                 /\ tipo # Flujo)
        THEN [positions |-> [q EXCEPT ![asset] = ReplayVenta(@, op.Cantidad)],
              cash_flow |-> cash]
        ELSE IF tipo = Flujo
        THEN [positions |-> q, cash_flow |-> ReplayFlujo(cash, op.Monto)]
        ELSE [positions |-> q, cash_flow |-> cash]

\* one iteration of the replay loop of calculate_portfolio_value: the new
\* positions and the new cash_flow
ReplayOp(pos, cash, op) ==
    LET asset == op.Activo
        tipo == op.Tipo
        q == WithAsset(pos, asset)
    IN  IF tipo = Compra
        THEN [positions |-> [q EXCEPT ![asset] =
                  ReplayCompra(@, op.Cantidad, op.Precio_Concertacion)],
              cash_flow |-> cash]
        ELSE IF tipo = Venta
        THEN [positions |-> [q EXCEPT ![asset] = ReplayVenta(@, op.Cantidad)],
              cash_flow |-> cash]
        ELSE IF IsCouponDividend(tipo)
        THEN [positions |-> q, cash_flow |-> cash]
        ELSE IF IsAmortization(tipo)
        THEN [positions |-> [q EXCEPT ![asset] =
                  ReplayAmortizacion(@, op.Cantidad)],
              cash_flow |-> cash]
        ELSE IF tipo = Flujo
        THEN [positions |-> q, cash_flow |-> ReplayFlujo(cash, op.Monto)]
        ELSE [positions |-> q, cash_flow |-> cash]

\* (a slip) the transactions of the start date are in the snapshot too
OpsUntilStart_Inclusive(ops, start) ==
    LET Before(op) == op.Fecha <= start
    IN  SelectSeq(ops, Before)

\* self.operaciones[self.operaciones['Fecha'] < start_date]
OpsUntilStart(ops, start) ==
    LET Before(op) == op.Fecha < start
    IN  SelectSeq(ops, Before)

\* ops_until_date of calculate_portfolio_value
OpsUntilDate(ops, start, date) ==
    LET InWindow(op) ==
            IF IsNone(start)
            THEN op.Fecha <= date
            ELSE op.Fecha <= date /\ op.Fecha >= TheValue(start)
    IN  SelectSeq(ops, InWindow)

\* ------------------------------------------------------- Valuation Engine
\* asset_prices of calculate_portfolio_value
AssetPricesUntil(prices, asset, date) ==
    LET Match(row) == row.Activo = asset /\ row.Fecha <= date
    IN  SelectSeq(prices, Match)

\* (a slip) iloc[0]: the first price of the asset, not the latest
AssetValue_FirstPrice(p, asset, prices, date) ==
    IF p.cantidad > 0
    THEN LET asset_prices == AssetPricesUntil(prices, asset, date)
         IN  IF asset_prices # <<>>
             THEN p.cantidad * asset_prices[1].Precio
             ELSE 0
    ELSE 0

\* (a slip) every position that is not empty is valued, short ones too
AssetValue_Signed(p, asset, prices, date) ==
    IF p.cantidad # 0
    THEN LET asset_prices == AssetPricesUntil(prices, asset, date)
         IN  IF asset_prices # <<>>
             THEN p.cantidad * asset_prices[Len(asset_prices)].Precio
             ELSE 0
    ELSE 0

\* asset_value of one position (0 when it adds nothing to portfolio_value)
AssetValue(p, asset, prices, date) ==
    IF p.cantidad > 0
    THEN LET asset_prices == AssetPricesUntil(prices, asset, date)
         IN  IF asset_prices # <<>>
             THEN p.cantidad * asset_prices[Len(asset_prices)].Precio
             ELSE 0
    ELSE 0

RECURSIVE SumOver(_, _, _, _)
SumOver(S, pos, prices, date) ==
    IF S = {} THEN 0
    ELSE LET a == CHOOSE x \in S : TRUE
         IN  AssetValue(pos[a], a, prices, date)
             + SumOver(S \ {a}, pos, prices, date)

\* portfolio_value of calculate_portfolio_value
PortfolioValue(pos, prices, date) == SumOver(DOMAIN pos, pos, prices, date)

\* (a slip) without the rule that keeps the start date in the range
DateRange_Unextended(prices, start) ==
    LET fechas == {prices[i].Fecha : i \in 1..Len(prices)}
        lo == CHOOSE d \in fechas : \A e \in fechas : d <= e
        hi == CHOOSE d \in fechas : \A e \in fechas : e <= d
        min_date == IF IsNone(start) THEN lo
                    ELSE IF TheValue(start) > lo THEN TheValue(start) ELSE lo
    IN  [i \in 1..(hi - min_date + 1) |-> min_date + i - 1]

\* the date index built by _process_data
DateRange(prices, start) ==
    LET fechas == {prices[i].Fecha : i \in 1..Len(prices)}
        lo == CHOOSE d \in fechas : \A e \in fechas : d <= e
        hi == CHOOSE d \in fechas : \A e \in fechas : e <= d
        min_date == IF IsNone(start) THEN lo
                    ELSE IF TheValue(start) > lo THEN TheValue(start) ELSE lo
        max_date == IF ~IsNone(start) /\ min_date > hi THEN min_date ELSE hi
    IN  [i \in 1..(max_date - min_date + 1) |-> min_date + i - 1]

\* --------------------------------------------------------- Returns Engine
\* daily_operations[<mask>]['Monto'].sum()
RECURSIVE SumMonto(_)
SumMonto(ops) == IF ops = <<>> THEN 0 ELSE Head(ops).Monto + SumMonto(Tail(ops))

\* self.operaciones[self.operaciones['Fecha'] == current_date]
DailyOperations(ops, date) ==
    LET SameDay(op) == op.Fecha = date
    IN  SelectSeq(ops, SameDay)

DailyPurchases(daily) ==
    LET IsCompra(op) == op.Tipo = Compra
    IN  SumMonto(SelectSeq(daily, IsCompra))

DailySales(daily) ==
    LET IsVenta(op) == op.Tipo = Venta
    IN  SumMonto(SelectSeq(daily, IsVenta))

\* isin(['Cupón', 'Cupon', 'Dividendo'])
DailyCouponLabels == { <<"C", "u", "p", "o'", "n">>, Cupon, Dividendo }

DailyCoupons(daily) ==
    LET IsCoupon(op) == op.Tipo \in DailyCouponLabels
    IN  SumMonto(SelectSeq(daily, IsCoupon))

DailyAmortizations(daily) ==
    LET IsAmort(op) == IsAmortization(op.Tipo)
    IN  SumMonto(SelectSeq(daily, IsAmort))

\* (a slip) the sales left out of the cash flow of the day
DailyCashFlow_WithoutSales(ops, date) ==
    LET daily == DailyOperations(ops, date)
    IN  DailyPurchases(daily) - DailyCoupons(daily) - DailyAmortizations(daily)

\* daily_cash_flow of calculate_daily_returns
DailyCashFlow(ops, date) ==
    LET daily == DailyOperations(ops, date)
    IN  DailyPurchases(daily) - DailySales(daily) - DailyCoupons(daily)
        - DailyAmortizations(daily)

\* (a slip) previous_value keeps the last value above zero
ReturnStep_KeepsLastValue(initial, previous, current_value, daily_cash_flow) ==
    IF IsNone(initial) /\ current_value > 0
    THEN [initial_value |-> Some(current_value),
          daily_return |-> FromInt(0),
          previous_value |-> Some(current_value)]
    ELSE IF IsNone(previous) \/ TheValue(previous) = 0
    THEN [initial_value |-> initial,
          daily_return |-> FromInt(0),
          previous_value |-> IF current_value > 0 THEN Some(current_value)
                             ELSE previous]
    ELSE [initial_value |-> initial,
          daily_return |->
              Frac((current_value - daily_cash_flow) - TheValue(previous),
                   TheValue(previous)),
          previous_value |-> IF current_value > 0 THEN Some(current_value)
                             ELSE previous]

\* the three branches of the loop body of calculate_daily_returns: the new
\* initial_value and previous_value and the day's return
ReturnStep(initial, previous, current_value, daily_cash_flow) ==
    IF IsNone(initial) /\ current_value > 0
    THEN [initial_value |-> Some(current_value),
          daily_return |-> FromInt(0),
          previous_value |-> Some(current_value)]
    ELSE IF IsNone(previous) \/ TheValue(previous) = 0
    THEN [initial_value |-> initial,
          daily_return |-> FromInt(0),
          previous_value |-> IF current_value > 0 THEN Some(current_value)
                             ELSE previous]
    ELSE [initial_value |-> initial,
          daily_return |->
              Frac((current_value - daily_cash_flow) - TheValue(previous),
                   TheValue(previous)),
          previous_value |-> Some(current_value)]

\* (a slip) the days of value zero are kept
ValidRows_NotNegative(rows) ==
    LET Held(r) == r.Valor_Cartera >= 0
    IN  SelectSeq(rows, Held)

\* returns_df[returns_df['Valor_Cartera'] > 0]
ValidRows(rows) ==
    LET Held(r) == r.Valor_Cartera > 0
    IN  SelectSeq(rows, Held)

\* the post-processing of calculate_daily_returns: filter, then Valor_Inicial
ReturnsFrame(rows, initial) ==
    LET kept == ValidRows(rows)
        resolved == IF IsNone(initial) /\ kept # <<>>
                    THEN Some(kept[1].Valor_Cartera) ELSE initial
        valor_inicial == IF ~IsNone(resolved) THEN TheValue(resolved) ELSE 0
    IN  [i \in 1..Len(kept) |->
            [Fecha |-> kept[i].Fecha,
             Rendimiento_Diario |-> kept[i].Rendimiento_Diario,
             Valor_Cartera |-> kept[i].Valor_Cartera,
             Daily_Cash_Flow |-> kept[i].Daily_Cash_Flow,
             Value_Without_Cash_Flow |-> kept[i].Value_Without_Cash_Flow,
             Valor_Inicial |-> valor_inicial]]

\* ------------------------------------------------------ Attribution Engine
FSub(x, y) == Frac(x[1] * y[2] - y[1] * x[2], x[2] * y[2])

\* the accumulators of one asset before its transactions are replayed
NewAccumulators ==
    [total_invested |-> 0, current_quantity |-> 0,
     weighted_price_sum |-> FromInt(0), realized_gains |-> FromInt(0),
     coupon_dividend_income |-> 0, amortizations |-> 0]

\* the Compra branch of calculate_attribution_analysis
AttributionCompra(acc, cantidad, precio_op, monto) ==
    [acc EXCEPT !.total_invested = @ + monto,
                !.current_quantity = @ + cantidad,
                !.weighted_price_sum = FAdd(@, FromInt(cantidad * precio_op))]

\* (a slip) the weighted sum is not rescaled to the quantity left
AttributionVenta_KeepsCostSum(acc, cantidad, precio_op) ==
    LET gains == IF acc.current_quantity > 0
                 THEN FAdd(acc.realized_gains,
                           FMul(FSub(FromInt(precio_op),
                                     FDiv(acc.weighted_price_sum,
                                          FromInt(acc.current_quantity))),
                                FromInt(cantidad)))
                 ELSE acc.realized_gains
        left == acc.current_quantity - cantidad
    IN  IF left <= 0
        THEN [acc EXCEPT !.realized_gains = gains,
                         !.current_quantity = 0,
                         !.weighted_price_sum = FromInt(0)]
        ELSE [acc EXCEPT !.realized_gains = gains,
                         !.current_quantity = left]

\* the Venta branch of calculate_attribution_analysis
AttributionVenta(acc, cantidad, precio_op) ==
    LET gains == IF acc.current_quantity > 0
                 THEN LET avg_price_at_sale ==
                              FDiv(acc.weighted_price_sum,
                                   FromInt(acc.current_quantity))
                          sale_gain ==
                              FMul(FSub(FromInt(precio_op), avg_price_at_sale),
                                   FromInt(cantidad))
                      IN  FAdd(acc.realized_gains, sale_gain)
                 ELSE acc.realized_gains
        left == acc.current_quantity - cantidad
    IN  IF left <= 0
        THEN [acc EXCEPT !.realized_gains = gains,
                         !.current_quantity = 0,
                         !.weighted_price_sum = FromInt(0)]
        ELSE [acc EXCEPT !.realized_gains = gains,
                         !.current_quantity = left,
                         !.weighted_price_sum =
                             FMul(FDiv(@, FromInt(left + cantidad)),
                                  FromInt(left))]

\* (a slip) the income is taken off the cost of the holding as well
AttributionIncome_LowersCost(acc, monto) ==
    [acc EXCEPT !.coupon_dividend_income = @ + monto,
                !.weighted_price_sum = FSub(@, FromInt(monto))]

\* the coupon/dividend branch: coupon_dividend_income += monto
AttributionIncome(acc, monto) ==
    [acc EXCEPT !.coupon_dividend_income = @ + monto]

\* the amortization branch: amortizations += monto
AttributionAmortizacion(acc, monto) == [acc EXCEPT !.amortizations = @ + monto]

\* one iteration of the loop over asset_ops
AttributionOp(acc, op) ==
    LET tipo == op.Tipo
    IN  IF tipo = Compra
        THEN AttributionCompra(acc, op.Cantidad, op.Precio_Concertacion,
                               op.Monto)
        ELSE IF tipo = Venta
        THEN AttributionVenta(acc, op.Cantidad, op.Precio_Concertacion)
        ELSE IF IsCouponDividend(tipo)
        THEN AttributionIncome(acc, op.Monto)
        ELSE IF IsAmortization(tipo)
        THEN AttributionAmortizacion(acc, op.Monto)
        ELSE acc

\* self.operaciones[self.operaciones['Activo'] == asset]
AssetOps(ops, asset) ==
    LET OfAsset(op) == op.Activo = asset
    IN  SelectSeq(ops, OfAsset)

\* self.operaciones['Activo'].unique(): the assets in order of appearance
RECURSIVE UniqueAssets(_, _)
UniqueAssets(ops, seen) ==
    IF ops = <<>> THEN <<>>
    ELSE IF Head(ops).Activo \in seen
    THEN UniqueAssets(Tail(ops), seen)
    ELSE <<Head(ops).Activo>>
         \o UniqueAssets(Tail(ops), seen \cup {Head(ops).Activo})

\* _get_initial_positions, the whole loop
RECURSIVE InitialPositions(_, _)
InitialPositions(rows, pos) ==
    IF rows = <<>> THEN pos
    ELSE InitialPositions(Tail(rows), InitialPositionsOp(pos, Head(rows)))

\* (a slip) only the assets with a transaction in the period
PeriodAndInitialAssets_PeriodOnly(ops, start) ==
    { ops[i].Activo : i \in { j \in 1..Len(ops) : ops[j].Fecha >= start } }

\* period_assets.union(initial_assets) with a start date
PeriodAndInitialAssets(ops, start) ==
    LET period_assets ==
            { ops[i].Activo : i \in { j \in 1..Len(ops) : ops[j].Fecha >= start } }
        initial_assets ==
            DOMAIN InitialPositions(OpsUntilStart(ops, start), <<>>)
    IN  period_assets \cup initial_assets

\* the orders in which list(a set) may give the elements of S
OrdersOf(S) ==
    { l \in [1..Cardinality(S) -> S] :
        \A i, j \in 1..Cardinality(S) : i # j => l[i] # l[j] }

\* asset_prices['Precio'].iloc[-1], or 0 without a price of the asset
CurrentPrice(prices, asset) ==
    LET OfAsset(row) == row.Activo = asset
        asset_prices == SelectSeq(prices, OfAsset)
    IN  IF asset_prices # <<>> THEN asset_prices[Len(asset_prices)].Precio
        ELSE 0

\* the last Valor_Cartera of portfolio_data, 1 for an empty frame
FinalPortfolioValue(data) ==
    IF data # <<>> THEN data[Len(data)].Valor_Cartera ELSE 1

\* weight = current_value / portfolio_value if portfolio_value > 0 else 0
Weight(current_value, portfolio_value) ==
    IF portfolio_value > 0 THEN Frac(current_value, portfolio_value)
    ELSE FromInt(0)

\* (a slip) the amortizations are left out of the total gain
TotalGain_WithoutAmortizations(acc, unrealized_gain) ==
    FAdd(FAdd(acc.realized_gains, unrealized_gain),
         FromInt(acc.coupon_dividend_income))

\* total_gain of an asset
TotalGain(acc, unrealized_gain) ==
    FAdd(FAdd(acc.realized_gains, unrealized_gain),
         FromInt(acc.coupon_dividend_income + acc.amortizations))

\* (a slip) the amortizations are counted as realized gains too
TotalRealizedGains_WithAmortizations(acc) ==
    FAdd(acc.realized_gains,
         FromInt(acc.coupon_dividend_income + acc.amortizations))

\* Ganancias_Realizadas of the record: realized_gains + coupon_dividend_income
TotalRealizedGains(acc) ==
    FAdd(acc.realized_gains, FromInt(acc.coupon_dividend_income))

\* the record appended to attribution_data for an asset with total_invested > 0
AttributionRecord(acc, asset, prices, data) ==
    LET avg_purchase_price ==
            IF acc.current_quantity > 0
            THEN FDiv(acc.weighted_price_sum, FromInt(acc.current_quantity))
            ELSE FromInt(0)
        current_price == CurrentPrice(prices, asset)
        current_value == acc.current_quantity * current_price
        unrealized_gain ==
            IF acc.current_quantity > 0
            THEN FSub(FromInt(current_value),
                      FMul(FromInt(acc.current_quantity), avg_purchase_price))
            ELSE FromInt(0)
        total_gain == TotalGain(acc, unrealized_gain)
        total_return ==
            IF acc.total_invested > 0
            THEN FDiv(total_gain, FromInt(acc.total_invested))
            ELSE FromInt(0)
        weight == Weight(current_value, FinalPortfolioValue(data))
    IN  [Activo |-> asset,
         Peso |-> weight,
         Retorno_vs_Costo |-> total_return,
         Retorno_Total |-> total_return,
         Contribucion |-> FMul(weight, total_return),
         Valor_Actual |-> current_value,
         Precio_Promedio |-> avg_purchase_price,
         Precio_Actual |-> current_price,
         Cantidad |-> acc.current_quantity,
         Ganancias_Realizadas |-> TotalRealizedGains(acc),
         Ganancias_No_Realizadas |-> unrealized_gain,
         Ingresos_Cupones_Dividendos |-> acc.coupon_dividend_income,
         Amortizaciones |-> acc.amortizations,
         Inversion_Total |-> acc.total_invested]

\* ------------------------------------------------ the loops, as a whole
\* the positions and the cash flow the replay of rows gives from pos and cash
RECURSIVE ReplayRowsFrom(_, _, _)
ReplayRowsFrom(rows, pos, cash) ==
    IF rows = <<>> THEN [positions |-> pos, cash_flow |-> cash]
    ELSE LET r == ReplayOp(pos, cash, Head(rows))
         IN  ReplayRowsFrom(Tail(rows), r.positions, r.cash_flow)

\* the positions and the cash flow of date d for the ledger ops
StateAt(ops, d) ==
    ReplayRowsFrom(OpsUntilDate(ops, start_date, d),
                   IF IsNone(start_date) THEN <<>>
                   ELSE InitialPositions(OpsUntilStart(ops, TheValue(start_date)),
                                         <<>>),
                   0)

\* the valuation series of the ledger ops
ValuationOf(ops) ==
    [i \in 1..Len(date_range) |->
        LET state == StateAt(ops, date_range[i])
        IN  [Fecha |-> date_range[i],
             Valor_Cartera |->
                 PortfolioValue(state.positions, precios, date_range[i]),
             Flujo_Cash |-> state.cash_flow]]

\* the rows the loop of calculate_daily_returns builds from the first n rows
\* of data for the ledger ops, with the initial and the previous value
RECURSIVE ReturnsLoop(_, _, _)
ReturnsLoop(data, ops, n) ==
    IF n = 0 THEN [initial_value |-> None, previous_value |-> None, rows |-> <<>>]
    ELSE LET before == ReturnsLoop(data, ops, n - 1)
             flow == DailyCashFlow(ops, data[n].Fecha)
             r == ReturnStep(before.initial_value, before.previous_value,
                             data[n].Valor_Cartera, flow)
         IN  [initial_value |-> r.initial_value,
              previous_value |-> r.previous_value,
              rows |-> Append(before.rows,
                              [Fecha |-> data[n].Fecha,
                               Rendimiento_Diario |-> r.daily_return,
                               Valor_Cartera |-> data[n].Valor_Cartera,
                               Daily_Cash_Flow |-> flow,
                               Value_Without_Cash_Flow |->
                                   data[n].Valor_Cartera - flow])]

\* the returns frame calculate_daily_returns builds from the valuation frame
\* data for the ledger ops
ReturnsFrom(data, ops) ==
    LET loop == ReturnsLoop(data, ops, Len(data))
    IN  ReturnsFrame(loop.rows, loop.initial_value)

\* the returns frame of the ledger ops
ReturnsOf(ops) == ReturnsFrom(ValuationOf(ops), ops)

\* the accumulators of asset a after the replay of the ledger ops
RECURSIVE AccumulatorsFrom(_, _)
AccumulatorsFrom(rows, acc) ==
    IF rows = <<>> THEN acc
    ELSE AccumulatorsFrom(Tail(rows), AttributionOp(acc, Head(rows)))

AccumulatorsOf(ops, a) == AccumulatorsFrom(AssetOps(ops, a), NewAccumulators)

\* the assets calculate_attribution_analysis goes through: with a start date
\* list(a set), in the order this process iterates the set
AttributedAssets(ops, start, set_order) ==
    IF IsNone(start) THEN UniqueAssets(ops, {})
    ELSE LET InPeriod(a) == a \in PeriodAndInitialAssets(ops, TheValue(start))
         IN  SelectSeq(set_order, InPeriod)

\* attribution_data after the loop over the assets of the list
RECURSIVE AttributionOf(_, _, _, _)
AttributionOf(list, ops, prices, data) ==
    IF list = <<>> THEN <<>>
    ELSE LET acc == AccumulatorsOf(ops, Head(list))
         IN  (IF acc.total_invested > 0
              THEN <<AttributionRecord(acc, Head(list), prices, data)>>
              ELSE <<>>)
             \o AttributionOf(Tail(list), ops, prices, data)

\* ------------------------------- calculate_individual_asset_performance
\* the position tracking variables of one asset before its transactions
NewPerformanceAccumulators ==
    [total_invested |-> 0, total_quantity |-> 0, weighted_price_sum |-> 0,
     realized_gains |-> FromInt(0), coupon_dividend_income |-> 0,
     amortizations |-> 0]

\* one iteration of the loop over asset_ops
PerformanceOp(acc, op) ==
    IF op.Tipo = Compra
    THEN [acc EXCEPT !.total_invested = @ + op.Monto,
                     !.total_quantity = @ + op.Cantidad,
                     !.weighted_price_sum =
                         @ + op.Cantidad * op.Precio_Concertacion]
    ELSE IF op.Tipo = Venta
    THEN LET gains ==
                 IF acc.total_quantity > 0
                 THEN FAdd(acc.realized_gains,
                           FMul(FSub(FromInt(op.Precio_Concertacion),
                                     Frac(acc.weighted_price_sum,
                                          acc.total_quantity)),
                                FromInt(op.Cantidad)))
                 ELSE acc.realized_gains
             left == acc.total_quantity - op.Cantidad
         IN  IF left <= 0
             THEN [acc EXCEPT !.realized_gains = gains,
                              !.total_quantity = left,
                              !.total_invested = 0,
                              !.weighted_price_sum = 0]
             ELSE [acc EXCEPT !.realized_gains = gains,
                              !.total_quantity = left]
    ELSE IF IsCouponDividend(op.Tipo)
    THEN [acc EXCEPT !.coupon_dividend_income = @ + op.Monto]
    ELSE IF IsAmortization(op.Tipo)
    THEN [acc EXCEPT !.amortizations = @ + op.Monto]
    ELSE acc

RECURSIVE PerformanceAccumulatorsFrom(_, _)
PerformanceAccumulatorsFrom(rows, acc) ==
    IF rows = <<>> THEN acc
    ELSE PerformanceAccumulatorsFrom(Tail(rows), PerformanceOp(acc, Head(rows)))

\* previous_price: performance_data[-1]['Precio'] when len(performance_data)
\* > 0, whatever the asset of that point
PreviousPrice(performance_data, asset) ==
    IF performance_data # <<>>
    THEN Some(performance_data[Len(performance_data)].Precio)
    ELSE None

\* the point appended for the price row of an asset
PerformancePoint(row, asset, acc, total_invested_original, performance_data) ==
    LET current_value ==
            IF acc.total_quantity > 0 THEN acc.total_quantity * row.Precio
            ELSE 0
        avg_purchase_price ==
            IF acc.total_quantity > 0
            THEN Frac(acc.weighted_price_sum, acc.total_quantity)
            ELSE FromInt(0)
        total_return ==
            IF total_invested_original > 0
            THEN FDiv(FAdd(acc.realized_gains,
                           FromInt(current_value + acc.coupon_dividend_income
                                   + acc.amortizations
                                   - total_invested_original)),
                      FromInt(total_invested_original))
            ELSE FromInt(0)
        previous_price == PreviousPrice(performance_data, asset)
        daily_return ==
            IF ~IsNone(previous_price) /\ TheValue(previous_price) > 0
            THEN Frac(row.Precio - TheValue(previous_price),
                      TheValue(previous_price))
            ELSE FromInt(0)
    IN  [Fecha |-> row.Fecha,
         Activo |-> asset,
         Precio |-> row.Precio,
         Precio_Promedio_Compra |->
             IF avg_purchase_price[1] > 0 THEN avg_purchase_price
             ELSE FromInt(0),
         Rendimiento_Diario |-> daily_return,
         Rendimiento_Acumulado |-> total_return,
         Ganancias_Realizadas |->
             FAdd(acc.realized_gains, FromInt(acc.coupon_dividend_income)),
         Ingresos_Cupones_Dividendos |-> acc.coupon_dividend_income,
         Amortizaciones |-> acc.amortizations,
         Cantidad_Actual |-> acc.total_quantity,
         Valor_Actual |-> current_value,
         Inversion_Original |-> total_invested_original]

\* the loop over the price rows of an asset
RECURSIVE PerformancePoints(_, _, _, _, _)
PerformancePoints(rows, asset, acc, total_invested_original, performance_data) ==
    IF rows = <<>> THEN performance_data
    ELSE PerformancePoints(
             Tail(rows), asset, acc, total_invested_original,
             Append(performance_data,
                    PerformancePoint(Head(rows), asset, acc,
                                     total_invested_original,
                                     performance_data)))

\* the loop over the assets: performance_data after the assets of the list
RECURSIVE IndividualAssetPerformance(_, _, _, _)
IndividualAssetPerformance(list, ops, prices, performance_data) ==
    IF list = <<>> THEN performance_data
    ELSE LET asset == Head(list)
             OfAsset(row) == row.Activo = asset
             asset_ops == AssetOps(ops, asset)
             acc == PerformanceAccumulatorsFrom(asset_ops,
                                                NewPerformanceAccumulators)
             IsCompra(op) == op.Tipo = Compra
         IN  IndividualAssetPerformance(
                 Tail(list), ops, prices,
                 PerformancePoints(SelectSeq(prices, OfAsset), asset, acc,
                                   SumMonto(SelectSeq(asset_ops, IsCompra)),
                                   performance_data))

\* ----------------------------------------------------- Metrics Calculator
\* A metric is a record [kind, value]: a number known exactly ("num"), NaN,
\* an infinity, or a real number that is no fraction: the square root of
\* value ("sqrt"), value raised to 252/days, minus 1 ("pow"), or a sum or
\* quotient of such numbers ("real").
Num(x) == [kind |-> "num", value |-> x]
NaN == [kind |-> "nan", value |-> FromInt(0)]
PosInf == [kind |-> "inf", value |-> FromInt(0)]
NegInf == [kind |-> "-inf", value |-> FromInt(0)]
Real == [kind |-> "real", value |-> FromInt(0)]
Sqrt(x) == IF x[1] = 0 THEN Num(FromInt(0)) ELSE [kind |-> "sqrt", value |-> x]

FLess(x, y) == x[1] * y[2] < y[1] * x[2]

\* m > 0 as Python evaluates it (NaN > 0 is False)
IsPositive(m) ==
    \/ m.kind \in {"sqrt", "inf"}
    \/ m.kind = "num" /\ m.value[1] > 0

\* x / y of numpy scalars: no exception, NaN and the infinities propagate;
\* the numerator of a division by zero is a number known exactly
Divide(x, y) ==
    IF x.kind = "nan" \/ y.kind = "nan" THEN NaN
    ELSE IF y.kind \in {"inf", "-inf"}
    THEN (IF x.kind \in {"inf", "-inf"} THEN NaN ELSE Num(FromInt(0)))
    ELSE IF y.kind = "num" /\ y.value[1] = 0
    THEN (IF x.value[1] = 0 THEN NaN
          ELSE IF x.value[1] > 0 THEN PosInf ELSE NegInf)
    ELSE IF x.kind = "num" /\ y.kind = "num" THEN Num(FDiv(x.value, y.value))
    ELSE IF x.kind = "num" /\ x.value[1] = 0 THEN Num(FromInt(0))
    ELSE Real

\* abs(m)
AbsOf(m) ==
    IF m.kind = "num" THEN Num(<<Abs(m.value[1]), m.value[2]>>)
    ELSE IF m.kind = "-inf" THEN PosInf
    ELSE m

\* m - r for a number r known exactly
Minus(m, r) ==
    IF m.kind = "num" THEN Num(FSub(m.value, r))
    ELSE IF m.kind \in {"nan", "inf", "-inf"} THEN m
    ELSE Real

\* the column Rendimiento_Diario of a returns frame
ReturnsColumn(frame) == [i \in 1..Len(frame) |-> frame[i].Rendimiento_Diario]

\* (1 + returns).cumprod() at position n; the empty product is 1
RECURSIVE CumProd(_, _)
CumProd(xs, n) ==
    IF n = 0 THEN FromInt(1)
    ELSE FMul(CumProd(xs, n - 1), FAdd(FromInt(1), xs[n]))

\* the least common denominator of the fractions of xs
RECURSIVE CommonDenominator(_)
CommonDenominator(xs) ==
    IF xs = <<>> THEN 1
    ELSE LET d == CommonDenominator(Tail(xs))
         IN  (d * Head(xs)[2]) \div GCD(d, Head(xs)[2])

RECURSIVE SumOfInts(_)
SumOfInts(ns) == IF ns = <<>> THEN 0 ELSE Head(ns) + SumOfInts(Tail(ns))

\* Series.std(): the sample standard deviation (ddof = 1), NaN for fewer
\* than two observations
Std(xs) ==
    LET n == Len(xs)
        D == CommonDenominator(xs)
        a == [i \in 1..n |-> xs[i][1] * (D \div xs[i][2])]
        squares == [i \in 1..n |-> a[i] * a[i]]
    IN  IF n < 2 THEN NaN
        ELSE Sqrt(Frac(n * SumOfInts(squares) - SumOfInts(a) * SumOfInts(a),
                       D * D * n * (n - 1)))

\* s * np.sqrt(252)
TimesSqrt252(s) ==
    IF s.kind = "sqrt" THEN Sqrt(FMul(FromInt(252), s.value)) ELSE s

\* (1 + total_return) ** (252 / days) - 1 if days > 0 else 0; a negative
\* base has a power only when 252 / days is a whole number
AnnualizedReturn(total_return, days) ==
    LET base == FAdd(FromInt(1), total_return)
    IN  IF days = 0 THEN Num(FromInt(0))
        ELSE IF base = FromInt(1) THEN Num(FromInt(0))
        ELSE IF base[1] = 0 THEN Num(FromInt(-1))
        ELSE IF base[1] < 0 /\ 252 % days # 0 THEN NaN
        ELSE [kind |-> "pow", value |-> base]

\* drawdown at position n: (cumulative - running_max) / running_max
Drawdown(xs, n) ==
    LET c == CumProd(xs, n)
        m == CHOOSE x \in { CumProd(xs, k) : k \in 1..n } :
                 \A k \in 1..n : ~FLess(x, CumProd(xs, k))
    IN  Divide(Num(FSub(c, m)), Num(m))

\* drawdown.min(), which skips NaN and is NaN for an empty series
MaxDrawdown(xs) ==
    LET D == { Drawdown(xs, n) : n \in 1..Len(xs) }
        numbers == { d \in D : d.kind = "num" }
    IN  IF NegInf \in D THEN NegInf
        ELSE IF numbers = {} THEN NaN
        ELSE CHOOSE d \in numbers :
                 \A e \in numbers : ~FLess(e.value, d.value)

\* win_rate = positive_days / days
WinRate(positive_days, days) ==
    Divide(Num(FromInt(positive_days)), Num(FromInt(days)))

\* the k-th smallest element of xs
RECURSIVE Kth(_, _)
Kth(xs, k) ==
    LET i == CHOOSE j \in 1..Len(xs) :
                 \A l \in 1..Len(xs) : ~FLess(xs[l], xs[j])
    IN  IF k = 1 THEN xs[i]
        ELSE Kth(SubSeq(xs, 1, i - 1) \o SubSeq(xs, i + 1, Len(xs)), k - 1)

\* np.percentile(returns, 5) of a series that is not empty: linear
\* interpolation at the position 0.05 * (n - 1) of the sorted series
Percentile5(xs) ==
    LET n == Len(xs)
        position == Frac(n - 1, 20)
        below == position[1] \div position[2]
        above == IF below + 2 <= n THEN below + 2 ELSE n
        weight == FSub(position, FromInt(below))
    IN  FAdd(Kth(xs, below + 1),
             FMul(weight, FSub(Kth(xs, above), Kth(xs, below + 1))))

\* Series.mean()
Mean(xs) ==
    IF xs = <<>> THEN NaN
    ELSE LET D == CommonDenominator(xs)
             a == [i \in 1..Len(xs) |-> xs[i][1] * (D \div xs[i][2])]
         IN  Num(Frac(SumOfInts(a), D * Len(xs)))

\* risk_free_rate, by default 0.05
RiskFreeRate == Frac(5, 100)

\* (a slip) the Sharpe ratio computed whatever the volatility
SharpeRatio_Unguarded(excess_return, volatility) ==
    Divide(excess_return, volatility)

\* sharpe_ratio = excess_return / volatility if volatility > 0 else 0
SharpeRatio(excess_return, volatility) ==
    IF IsPositive(volatility) THEN Divide(excess_return, volatility)
    ELSE Num(FromInt(0))

\* the dictionary calculate_metrics builds from the returns frame, for the
\* value np.percentile gives the series
MetricsOf(frame, var_95) ==
    LET xs == ReturnsColumn(frame)
        days == Len(xs)
        total_return == FSub(CumProd(xs, days), FromInt(1))
        annualized_return == AnnualizedReturn(total_return, days)
        volatility == TimesSqrt252(Std(xs))
        excess_return == Minus(annualized_return, RiskFreeRate)
        max_drawdown == MaxDrawdown(xs)
        IsGain(x) == x[1] > 0
        IsLoss(x) == x[1] < 0
        positive_days == Len(SelectSeq(xs, IsGain))
        negative_returns == SelectSeq(xs, IsLoss)
        downside_volatility ==
            IF Len(negative_returns) > 0
            THEN TimesSqrt252(Std(negative_returns))
            ELSE Num(FromInt(0))
        AtMostVar(x) == var_95.kind = "num" /\ ~FLess(var_95.value, x)
    IN  [total_return |-> Num(total_return),
         annualized_return |-> annualized_return,
         volatility |-> volatility,
         sharpe_ratio |-> SharpeRatio(excess_return, volatility),
         sortino_ratio |->
             IF IsPositive(downside_volatility)
             THEN Divide(excess_return, downside_volatility)
             ELSE Num(FromInt(0)),
         calmar_ratio |->
             IF max_drawdown # Num(FromInt(0))
             THEN Divide(annualized_return, AbsOf(max_drawdown))
             ELSE Num(FromInt(0)),
         max_drawdown |-> max_drawdown,
         win_rate |-> WinRate(positive_days, days),
         var_95 |-> var_95,
         cvar_95 |-> Mean(SelectSeq(xs, AtMostVar)),
         total_days |-> days,
         positive_days |-> positive_days]

\* self.daily_returns['Año_Mes'] = ...: the frame with the new column,
\* strftime('%Y-%m') of the date: days 1 and 2 are the last two days of a
\* month, the later days belong to the next month
WithYearMonth(frame) ==
    [i \in 1..Len(frame) |->
        [Fecha |-> frame[i].Fecha,
         Rendimiento_Diario |-> frame[i].Rendimiento_Diario,
         Valor_Cartera |-> frame[i].Valor_Cartera,
         Daily_Cash_Flow |-> frame[i].Daily_Cash_Flow,
         Value_Without_Cash_Flow |-> frame[i].Value_Without_Cash_Flow,
         Valor_Inicial |-> frame[i].Valor_Inicial,
         Ano_Mes |-> IF frame[i].Fecha <= 2 THEN 1 ELSE 2]]

\* monthly_metrics of get_performance_summary: one row for each month of
\* the frame, in the order of the months
MonthlyMetrics(frame) ==
    LET OfMonth(m) ==
            LET InMonth(r) == r.Ano_Mes = m
            IN  ReturnsColumn(SelectSeq(frame, InMonth))
        RowOf(m) ==
            LET xs == OfMonth(m)
                monthly_return == Num(FSub(CumProd(xs, Len(xs)), FromInt(1)))
                monthly_volatility == TimesSqrt252(Std(xs))
            IN  [Fecha |-> m,
                 Retorno_Mensual |-> monthly_return,
                 Volatilidad_Mensual |-> monthly_volatility,
                 Sharpe_Mensual |-> Divide(monthly_return, monthly_volatility)]
    IN  (IF OfMonth(1) # <<>> THEN <<RowOf(1)>> ELSE <<>>)
        \o (IF OfMonth(2) # <<>> THEN <<RowOf(2)>> ELSE <<>>)

\* ------------------------------------------------------------- the inputs
\* str.strip() of a label
RECURSIVE StripLeft(_)
StripLeft(s) == IF s # <<>> /\ Head(s) = " " THEN StripLeft(Tail(s)) ELSE s

RECURSIVE StripRight(_)
StripRight(s) ==
    IF s # <<>> /\ s[Len(s)] = " " THEN StripRight(SubSeq(s, 1, Len(s) - 1))
    ELSE s

Strip(s) == StripRight(StripLeft(s))

Row(t, a, c, p, m) ==
    [Tipo |-> t, Activo |-> a, Cantidad |-> c, Precio_Concertacion |-> p,
     Monto |-> m]

\* rows of the input sheet, without their date: the trades of one asset, ...
RowsTrading ==
    { Row(Compra, "A", 1, 2, 2), Row(Compra, "A", 2, 3, 6),
      Row(Venta, "A", 1, 3, 3), Row(Venta, "A", 2, 2, 4) }

\* ... income and a capital return of a held asset, ...
RowsIncome ==
    { Row(Compra, "A", 2, 3, 6), Row(Cupon, "A", 1, 1, 1),
      Row(Amortizacion, "A", 1, 1, 2) }

\* ... income under an English label and a label the calculator does not know, ...
RowsOtherLabels ==
    { Row(Compra, "A", 2, 3, 6), Row(Coupon, "A", 1, 1, 1),
      Row(Canje, "A", 1, 1, 1) }

\* ... external flows, ...
RowsFlow ==
    { Row(Compra, "A", 1, 2, 2), Row(Flujo, "B", 1, 1, 1),
      Row(Flujo, "A", 1, 1, 2) }

\* ... trades of two assets, one label padded with blanks, ...
RowsTwoAssets ==
    { Row(Compra, "A", 1, 2, 2), Row(Compra, "B", 2, 3, 6),
      Row(<<" ">> \o Venta \o <<" ">>, "B", 2, 2, 4) }

\* ... purchases at two prices and a sale, ...
RowsSales ==
    { Row(Compra, "A", 1, 2, 2), Row(Compra, "A", 2, 3, 6),
      Row(Venta, "A", 1, 3, 3) }

\* ... a holding with income that is sold at a gain, ...
RowsRealized ==
    { Row(Compra, "A", 2, 3, 6), Row(Cupon, "A", 1, 1, 1),
      Row(Venta, "A", 2, 4, 8) }

\* ... income of two assets, ...
RowsTwoIncomes ==
    { Row(Compra, "A", 2, 3, 6), Row(Cupon, "A", 1, 1, 1),
      Row(Dividendo, "B", 1, 1, 2) }

\* ... labels in another letter case, ...
RowsLetterCase ==
    { Row(Compra, "A", 2, 3, 6), Row(CompraLower, "A", 1, 2, 2),
      Row(CuponUpper, "A", 1, 1, 1) }

\* ... and the purchases tried against every price sheet and start date
RowsFew == { Row(Compra, "A", 1, 2, 2), Row(Compra, "B", 2, 3, 6) }

\* ... trades at the price of the constant sheet, ...
RowsAtMarket ==
    { Row(Compra, "A", 1, 2, 2), Row(Venta, "A", 1, 2, 2),
      Row(Compra, "B", 1, 3, 3) }

\* ... a holding at that price and its sale, ...
RowsHeld == { Row(Compra, "A", 1, 2, 2), Row(Venta, "A", 1, 2, 2) }

\* ... and a holding and its sale at a gain
RowsGain == { Row(Compra, "A", 2, 3, 6), Row(Venta, "A", 2, 4, 8) }

\* the ledgers of at most n rows drawn from rows, as _process_data leaves
\* them: Tipo stripped, sorted by Fecha
LedgersOver(rows, n) ==
    LET ops == { [Fecha |-> f, Tipo |-> Strip(r.Tipo), Activo |-> r.Activo,
                  Cantidad |-> r.Cantidad,
                  Precio_Concertacion |-> r.Precio_Concertacion,
                  Monto |-> r.Monto] : f \in 1..MaxDate, r \in rows }
    IN  UNION { { l \in [1..k -> ops] :
                    \A i \in 1..(k - 1) : l[i].Fecha <= l[i + 1].Fecha }
                : k \in 0..n }

\* the price sheet: the price of an asset on a date it is quoted
SheetPrice(a, d) == IF a = "A" THEN (d % 3) + 1 ELSE 1 + 2 * (d % 2)

\* the long-format price frame of the sheet quoting A on datesA and B on
\* datesB, sorted by Fecha
RECURSIVE PriceFrame(_, _, _)
PriceFrame(datesA, datesB, d) ==
    IF d > MaxDate THEN <<>>
    ELSE (IF d \in datesA
          THEN <<[Fecha |-> d, Activo |-> "A", Precio |-> SheetPrice("A", d)]>>
          ELSE <<>>)
         \o (IF d \in datesB
             THEN <<[Fecha |-> d, Activo |-> "B", Precio |-> SheetPrice("B", d)]>>
             ELSE <<>>)
         \o PriceFrame(datesA, datesB, d + 1)

AllDates == 1..MaxDate
QuotesA == { AllDates, {1, MaxDate}, {2} }
QuotesB == { AllDates, {2}, {} }
Starts == {None} \cup { Some(d) : d \in 1..(MaxDate + 1) }

FullSheet == PriceFrame(AllDates, AllDates, 1)

\* the sheet on which the price of an asset never moves: A at 2, B at 3
RECURSIVE ConstantFrame(_, _, _)
ConstantFrame(datesA, datesB, d) ==
    IF d > MaxDate THEN <<>>
    ELSE (IF d \in datesA
          THEN <<[Fecha |-> d, Activo |-> "A", Precio |-> 2]>>
          ELSE <<>>)
         \o (IF d \in datesB
             THEN <<[Fecha |-> d, Activo |-> "B", Precio |-> 3]>>
             ELSE <<>>)
         \o ConstantFrame(datesA, datesB, d + 1)

\* ------------------------------------------------------------------- Init
\* __init__ and _process_data on a ledger, a price frame and a start date
Construct(l, pr, st) ==
    /\ operaciones = l
    /\ precios = pr
    /\ start_date = st
    /\ date_range = DateRange(pr, st)

\* what a call hands to its caller: the value it returned or the exception
\* it raised
Returned(method, output) ==
    [method |-> method, raised |-> "", output |-> output]
Raised(method, exception) ==
    [method |-> method, raised |-> exception, output |-> <<>>]

\* the environments: np.percentile of an empty series raises IndexError or
\* gives NaN, depending on the numpy release; list(a set of strings) follows
\* the hash seed of the process
Environments ==
    [percentile_of_empty : {"IndexError", "nan"}, set_order : OrdersOf(Assets)]

\* an environment for the calculators that read neither
SomeEnvironment == [percentile_of_empty |-> "nan", set_order |-> <<"A", "B">>]

\* the attributes and the locals before any call
NoCallYet ==
    /\ initial_positions = <<>>
    /\ snap_i = 0
    /\ date_i = 0
    /\ op_i = 0
    /\ positions = <<>>
    /\ cash_flow = 0
    /\ portfolio_values = <<>>
    /\ portfolio_data = None
    /\ row_i = 0
    /\ initial_value = None
    /\ previous_value = None
    /\ returns = <<>>
    /\ daily_returns = None
    /\ assets = <<>>
    /\ asset_i = 0
    /\ aop_i = 0
    /\ accumulators = NewAccumulators
    /\ attribution_data = <<>>
    /\ attribution = None
    /\ metrics = None

\* the calculator after __init__, whatever its inputs
Constructed ==
    /\ pc = "constructed"
    /\ NoCallYet
    /\ result = Returned("__init__", <<>>)

\* __init__ on a price frame without rows: min() and max() of its empty
\* Fecha column are NaT, with or without a start date, and pd.date_range
\* raises ValueError; the exception leaves no calculator
ConstructionRaised(l, st) ==
    /\ operaciones = l
    /\ precios = <<>>
    /\ start_date = st
    /\ date_range = <<>>
    /\ pc = "raised"
    /\ NoCallYet
    /\ result = Raised("__init__", "ValueError")

\* the calculators whose valuation and returns are computed
Init ==
    /\ \/ \E l \in LedgersOver(RowsTrading, MaxOps)
                   \cup LedgersOver(RowsIncome, MaxOps)
                   \cup LedgersOver(RowsFlow, MaxOps),
             st \in {None, Some(2)} : Construct(l, FullSheet, st)
       \/ \E l \in LedgersOver(RowsOtherLabels, MaxOps)
                   \cup LedgersOver(RowsTwoAssets, MaxOps) :
             Construct(l, FullSheet, None)
       \/ \E l \in LedgersOver(RowsFew, MaxOps - 1),
             qa \in QuotesA, qb \in QuotesB, st \in Starts :
             Construct(l, PriceFrame(qa, qb, 1), st)
    /\ environment = SomeEnvironment
    /\ Constructed

\* the calculators whose attribution is computed
AttributionInit ==
    /\ \/ \E l \in LedgersOver(RowsSales, MaxOps)
                   \cup LedgersOver(RowsIncome, MaxOps)
                   \cup LedgersOver(RowsTwoAssets, MaxOps)
                   \cup LedgersOver(RowsLetterCase, MaxOps) :
             Construct(l, FullSheet, None)
       \/ \E l \in LedgersOver(RowsRealized, MaxOps)
                   \cup LedgersOver(RowsTwoIncomes, MaxOps),
             st \in {None, Some(2)} : Construct(l, FullSheet, st)
       \/ \E l \in LedgersOver(RowsFew, MaxOps - 1),
             qa \in QuotesA, qb \in QuotesB :
             Construct(l, PriceFrame(qa, qb, 1), None)
    /\ environment = SomeEnvironment
    /\ Constructed

\* the calculators whose returns and attribution are both computed
AnalysisInit ==
    /\ \E l \in LedgersOver(RowsOtherLabels, MaxOps), st \in {None, Some(2)} :
           Construct(l, FullSheet, st)
    /\ environment = SomeEnvironment
    /\ Constructed

\* the calculators that trade at the price of the constant sheet, B quoted
\* from the first day or from the second, those that trade at other prices
\* on that sheet, and those with external flows on the sheet that moves
TradingInit ==
    /\ \/ \E l \in LedgersOver(RowsAtMarket, MaxOps),
             first \in {1, 2}, st \in {None, Some(2)} :
             Construct(l, ConstantFrame(AllDates, first..MaxDate, 1), st)
       \/ \E l \in LedgersOver(RowsGain, MaxOps - 1) :
             Construct(l, ConstantFrame(AllDates, AllDates, 1), None)
       \/ \E l \in LedgersOver(RowsFlow, MaxOps - 1) :
             Construct(l, FullSheet, None)
    /\ environment = SomeEnvironment
    /\ Constructed

\* the calculators whose methods are called as a whole, in any order, and
\* the constructions that raise
PipelineInit ==
    \/ /\ \E l \in LedgersOver(RowsHeld, MaxOps - 1) :
             Construct(l, ConstantFrame(AllDates, AllDates, 1), None)
       /\ environment \in { e \in Environments : e.set_order = <<"A", "B">> }
       /\ Constructed
    \/ /\ \E l \in LedgersOver(RowsGain, MaxOps - 1), st \in {None, Some(2)} :
             Construct(l, FullSheet, st)
       /\ environment = SomeEnvironment
       /\ Constructed
    \/ /\ \E l \in LedgersOver(RowsFew, MaxOps - 1) :
             Construct(l, FullSheet, None)
       /\ environment = SomeEnvironment
       /\ Constructed
    \/ /\ \E l \in LedgersOver(RowsFew, MaxOps - 1) :
             Construct(l, FullSheet, Some(2))
       /\ environment \in { e \in Environments : e.percentile_of_empty = "nan" }
       /\ Constructed
    \/ /\ \E l \in LedgersOver(RowsFew, MaxOps - 1), st \in {None, Some(2)} :
             ConstructionRaised(l, st)
       /\ environment = SomeEnvironment

\* ------------------------------------------- calculate_portfolio_value
\* entry of calculate_daily_returns or calculate_attribution_analysis on a new
\* calculator, and of the calculate_portfolio_value they call
BeginPortfolioValue ==
    /\ pc = "constructed"
    /\ portfolio_values' = <<>>
    /\ initial_positions' = <<>>
    /\ IF IsNone(start_date)
       THEN pc' = "next_date" /\ snap_i' = snap_i
       ELSE pc' = "initial_positions" /\ snap_i' = 1
    /\ date_i' = 0
    /\ UNCHANGED <<attribution_vars, calls_vars, inputs, op_i, positions, cash_flow, returns_vars>>

\* one iteration of the loop of _get_initial_positions
InitialPositionsStep ==
    /\ pc = "initial_positions"
    /\ LET ops_until_start == OpsUntilStart(operaciones, TheValue(start_date))
       IN  /\ snap_i <= Len(ops_until_start)
           /\ initial_positions' =
                  InitialPositionsOp(initial_positions, ops_until_start[snap_i])
    /\ snap_i' = snap_i + 1
    /\ UNCHANGED <<attribution_vars, calls_vars, inputs, pc, date_i, op_i, positions, cash_flow,
                   portfolio_values, returns_vars>>

\* return positions
InitialPositionsReturn ==
    /\ pc = "initial_positions"
    /\ snap_i > Len(OpsUntilStart(operaciones, TheValue(start_date)))
    /\ pc' = "next_date"
    /\ UNCHANGED <<attribution_vars, calls_vars, inputs, initial_positions, snap_i, date_i, op_i, positions,
                   cash_flow, portfolio_values, returns_vars>>

\* head of the loop over date_range: the positions and the cash flow of the
\* date start from the initial positions and from 0
NextDate ==
    /\ pc = "next_date"
    /\ date_i < Len(date_range)
    /\ date_i' = date_i + 1
    /\ positions' = initial_positions
    /\ cash_flow' = 0
    /\ op_i' = 1
    /\ pc' = "replay"
    /\ UNCHANGED <<attribution_vars, calls_vars, inputs, initial_positions, snap_i, portfolio_values,
                   returns_vars>>

\* one iteration of the replay loop
ReplayStep ==
    /\ pc = "replay"
    /\ LET ops_until_date ==
               OpsUntilDate(operaciones, start_date, date_range[date_i])
       IN  /\ op_i <= Len(ops_until_date)
           /\ LET r == ReplayOp(positions, cash_flow, ops_until_date[op_i])
              IN  /\ positions' = r.positions
                  /\ cash_flow' = r.cash_flow
    /\ op_i' = op_i + 1
    /\ UNCHANGED <<attribution_vars, calls_vars, inputs, pc, initial_positions, snap_i, date_i,
                   portfolio_values, returns_vars>>

\* the valuation of the date and portfolio_values.append
AppendValue ==
    /\ pc = "replay"
    /\ op_i > Len(OpsUntilDate(operaciones, start_date, date_range[date_i]))
    /\ portfolio_values' =
           Append(portfolio_values,
                  [Fecha |-> date_range[date_i],
                   Valor_Cartera |->
                       PortfolioValue(positions, precios, date_range[date_i]),
                   Flujo_Cash |-> cash_flow])
    /\ pc' = "next_date"
    /\ UNCHANGED <<attribution_vars, calls_vars, inputs, initial_positions, snap_i, date_i, op_i, positions,
                   cash_flow, returns_vars>>

\* ---------------------------------------------- calculate_daily_returns
\* self.portfolio_data = self.calculate_portfolio_value(), then the locals
BeginDailyReturns ==
    /\ pc = "next_date"
    /\ date_i = Len(date_range)
    /\ portfolio_data' = Some(portfolio_values)
    /\ returns' = <<>>
    /\ initial_value' = None
    /\ previous_value' = None
    /\ row_i' = 1
    /\ pc' = "daily_returns"
    /\ UNCHANGED <<attribution_vars, calls_vars, inputs, valuation_vars, daily_returns>>

\* one iteration of the loop over the rows of portfolio_data
DailyReturnStep ==
    /\ pc = "daily_returns"
    /\ row_i <= Len(TheValue(portfolio_data))
    /\ LET row == TheValue(portfolio_data)[row_i]
           current_value == row.Valor_Cartera
           daily_cash_flow == DailyCashFlow(operaciones, row.Fecha)
           r == ReturnStep(initial_value, previous_value, current_value,
                           daily_cash_flow)
       IN  /\ initial_value' = r.initial_value
           /\ previous_value' = r.previous_value
           /\ returns' =
                  Append(returns,
                         [Fecha |-> row.Fecha,
                          Rendimiento_Diario |-> r.daily_return,
                          Valor_Cartera |-> current_value,
                          Daily_Cash_Flow |-> daily_cash_flow,
                          Value_Without_Cash_Flow |->
                              current_value - daily_cash_flow])
    /\ row_i' = row_i + 1
    /\ UNCHANGED <<attribution_vars, calls_vars, inputs, valuation_vars, pc, portfolio_data, daily_returns>>

\* the frame, the filter, Valor_Inicial; self.daily_returns = returns_df
FinishDailyReturns ==
    /\ pc = "daily_returns"
    /\ row_i > Len(TheValue(portfolio_data))
    /\ daily_returns' = Some(ReturnsFrame(returns, initial_value))
    /\ pc' = "done"
    /\ UNCHANGED <<attribution_vars, calls_vars, inputs, valuation_vars, portfolio_data, row_i,
                   initial_value, previous_value, returns>>

\* --------------------------------------- calculate_attribution_analysis
\* the list of assets and the empty attribution_data
ListAssets ==
    /\ IF IsNone(start_date)
       THEN assets' = UniqueAssets(operaciones, {})
       ELSE assets' \in OrdersOf(PeriodAndInitialAssets(operaciones,
                                                       TheValue(start_date)))
    /\ attribution_data' = <<>>
    /\ asset_i' = 0
    /\ pc' = "attribution"
    /\ UNCHANGED <<calls_vars, inputs, valuation_vars, row_i, initial_value,
                   previous_value, returns, daily_returns, aop_i,
                   accumulators, attribution>>

\* calculate_attribution_analysis on a new calculator: self.portfolio_data
\* was None and is the valuation that has just returned
BeginAttribution ==
    /\ pc = "next_date"
    /\ date_i = Len(date_range)
    /\ portfolio_data' = Some(portfolio_values)
    /\ ListAssets

\* calculate_attribution_analysis after calculate_daily_returns:
\* self.portfolio_data is the one it left
BeginAttributionAfterReturns ==
    /\ pc = "done"
    /\ portfolio_data' = portfolio_data
    /\ ListAssets

\* head of the loop over assets: the accumulators start from zero
NextAsset ==
    /\ pc = "attribution"
    /\ asset_i < Len(assets)
    /\ asset_i' = asset_i + 1
    /\ accumulators' = NewAccumulators
    /\ aop_i' = 1
    /\ pc' = "asset_ops"
    /\ UNCHANGED <<calls_vars, inputs, valuation_vars, returns_vars, assets,
                   attribution_data, attribution>>

\* one iteration of the loop over asset_ops
AttributionStep ==
    /\ pc = "asset_ops"
    /\ LET asset_ops == AssetOps(operaciones, assets[asset_i])
       IN  /\ aop_i <= Len(asset_ops)
           /\ accumulators' = AttributionOp(accumulators, asset_ops[aop_i])
    /\ aop_i' = aop_i + 1
    /\ UNCHANGED <<calls_vars, inputs, valuation_vars, returns_vars, pc, assets, asset_i,
                   attribution_data, attribution>>

\* after the loop: if total_invested > 0, attribution_data.append
AppendRecord ==
    /\ pc = "asset_ops"
    /\ aop_i > Len(AssetOps(operaciones, assets[asset_i]))
    /\ attribution_data' =
           IF accumulators.total_invested > 0
           THEN Append(attribution_data,
                       AttributionRecord(accumulators, assets[asset_i],
                                         precios, TheValue(portfolio_data)))
           ELSE attribution_data
    /\ pc' = "attribution"
    /\ UNCHANGED <<calls_vars, inputs, valuation_vars, returns_vars, assets, asset_i,
                   aop_i, accumulators, attribution>>

\* return pd.DataFrame(attribution_data)
FinishAttribution ==
    /\ pc = "attribution"
    /\ asset_i = Len(assets)
    /\ attribution' = Some(attribution_data)
    /\ pc' = "attributed"
    /\ UNCHANGED <<calls_vars, inputs, valuation_vars, returns_vars, assets, asset_i,
                   aop_i, accumulators, attribution_data>>

\* ------------------------------------------------ the methods, as a whole
\* the locals of the loops, which a finished call leaves behind
locals == <<valuation_vars, row_i, initial_value, previous_value, returns,
            attribution_vars>>

\* if self.portfolio_data is None:
\*     self.portfolio_data = self.calculate_portfolio_value()
CachedValuation ==
    IF IsNone(portfolio_data) THEN Some(ValuationOf(operaciones))
    ELSE portfolio_data

\* if self.daily_returns is None: self.calculate_daily_returns()
CachedReturns ==
    IF IsNone(daily_returns)
    THEN Some(ReturnsFrom(TheValue(CachedValuation), operaciones))
    ELSE daily_returns

\* calculate_portfolio_value(): nothing is stored
CalculatePortfolioValue ==
    /\ pc = "constructed"
    /\ result' = Returned("calculate_portfolio_value", ValuationOf(operaciones))
    /\ UNCHANGED <<inputs, pc, locals, portfolio_data, daily_returns, metrics>>

\* (a slip) calculate_daily_returns() giving the stored returns when there
\* are any
CalculateDailyReturns_Cached ==
    /\ pc = "constructed"
    /\ portfolio_data' =
           (IF IsNone(daily_returns) THEN CachedValuation ELSE portfolio_data)
    /\ daily_returns' = CachedReturns
    /\ result' = Returned("calculate_daily_returns", TheValue(CachedReturns))
    /\ UNCHANGED <<inputs, pc, locals, metrics>>

\* calculate_daily_returns(): from the stored valuation, if there is one
CalculateDailyReturns ==
    /\ pc = "constructed"
    /\ portfolio_data' = CachedValuation
    /\ daily_returns' =
           Some(ReturnsFrom(TheValue(CachedValuation), operaciones))
    /\ result' = Returned("calculate_daily_returns", TheValue(daily_returns'))
    /\ UNCHANGED <<inputs, pc, locals, metrics>>

\* calculate_metrics(): from the stored returns, if there are any
CalculateMetrics ==
    /\ pc = "constructed"
    /\ portfolio_data' =
           (IF IsNone(daily_returns) THEN CachedValuation ELSE portfolio_data)
    /\ daily_returns' = CachedReturns
    /\ LET frame == TheValue(CachedReturns)
       IN  IF frame = <<>>
           THEN IF environment.percentile_of_empty = "IndexError"
                THEN /\ metrics' = metrics
                     /\ result' = Raised("calculate_metrics", "IndexError")
                ELSE /\ metrics' = Some(MetricsOf(frame, NaN))
                     /\ result' = Returned("calculate_metrics",
                                           MetricsOf(frame, NaN))
           ELSE LET var_95 == Num(Percentile5(ReturnsColumn(frame)))
                IN  /\ metrics' = Some(MetricsOf(frame, var_95))
                    /\ result' = Returned("calculate_metrics",
                                          MetricsOf(frame, var_95))
    /\ UNCHANGED <<inputs, pc, locals>>

\* calculate_attribution_analysis(): from the stored valuation, if there is
\* one
CalculateAttributionAnalysis ==
    /\ pc = "constructed"
    /\ portfolio_data' = CachedValuation
    /\ result' =
           Returned("calculate_attribution_analysis",
                    AttributionOf(AttributedAssets(operaciones, start_date,
                                                   environment.set_order),
                                  operaciones, precios,
                                  TheValue(CachedValuation)))
    /\ UNCHANGED <<inputs, pc, locals, daily_returns, metrics>>

\* get_performance_summary(): the stored returns get the column Año_Mes
GetPerformanceSummary ==
    /\ pc = "constructed"
    /\ portfolio_data' =
           (IF IsNone(daily_returns) THEN CachedValuation ELSE portfolio_data)
    /\ daily_returns' = Some(WithYearMonth(TheValue(CachedReturns)))
    /\ result' = Returned("get_performance_summary",
                          MonthlyMetrics(TheValue(daily_returns')))
    /\ UNCHANGED <<inputs, pc, locals, metrics>>

\* calculate_individual_asset_performance(): nothing is stored
CalculateIndividualAssetPerformance ==
    /\ pc = "constructed"
    /\ result' =
           Returned("calculate_individual_asset_performance",
                    IndividualAssetPerformance(UniqueAssets(operaciones, {}),
                                               operaciones, precios, <<>>))
    /\ UNCHANGED <<inputs, pc, locals, portfolio_data, daily_returns, metrics>>

Next ==
    \/ BeginPortfolioValue
    \/ InitialPositionsStep
    \/ InitialPositionsReturn
    \/ NextDate
    \/ ReplayStep
    \/ AppendValue
    \/ BeginDailyReturns
    \/ DailyReturnStep
    \/ FinishDailyReturns

Spec == Init /\ [][Next]_vars

\* the valuation, then the attribution
AttributionNext ==
    \/ BeginPortfolioValue
    \/ InitialPositionsStep
    \/ InitialPositionsReturn
    \/ NextDate
    \/ ReplayStep
    \/ AppendValue
    \/ BeginAttribution
    \/ NextAsset
    \/ AttributionStep
    \/ AppendRecord
    \/ FinishAttribution

AttributionSpec == AttributionInit /\ [][AttributionNext]_vars

\* the valuation, the returns, then the attribution
AnalysisNext ==
    \/ Next
    \/ BeginAttributionAfterReturns
    \/ NextAsset
    \/ AttributionStep
    \/ AppendRecord
    \/ FinishAttribution

AnalysisSpec == AnalysisInit /\ [][AnalysisNext]_vars

\* the valuation and the returns of the calculators that trade
TradingSpec == TradingInit /\ [][Next]_vars

\* the methods of one calculator, called in any order, any number of times
PipelineNext ==
    \/ CalculatePortfolioValue
    \/ CalculateDailyReturns
    \/ CalculateMetrics
    \/ CalculateAttributionAnalysis
    \/ GetPerformanceSummary
    \/ CalculateIndividualAssetPerformance

PipelineSpec == PipelineInit /\ [][PipelineNext]_vars

\* ================================================================= claims
\* quantity and average cost of an asset in a position map (an asset the map
\* does not hold has the position the code creates for it: 0 and 0)
QtyOf(pos, a) == IF a \in DOMAIN pos THEN pos[a].cantidad ELSE 0
AvgOf(pos, a) == IF a \in DOMAIN pos THEN pos[a].precio_promedio ELSE <<0, 1>>

\* the row the replay loop is at, and the row it has just replayed
ReplayRows == OpsUntilDate(operaciones, start_date, date_range[date_i])
SnapshotRows == OpsUntilStart(operaciones, TheValue(start_date))
ReplayActs == pc = "replay" /\ op_i' = op_i + 1
SnapshotActs == pc = "initial_positions" /\ snap_i' = snap_i + 1
Replayed == pc = "replay" /\ op_i > 1
Snapshotted == pc = "initial_positions" /\ snap_i > 1

\* before -> after is a Buy of q at p on asset a
BuyResult(before, after, a, q, p) ==
    LET Q == QtyOf(before, a)
        A == AvgOf(before, a)
        N == AvgOf(after, a)
    IN  /\ QtyOf(after, a) = Q + q
        /\ IF Q + q > 0
           THEN N[1] * (Q + q) * A[2] = N[2] * (Q * A[1] + q * p * A[2])
           ELSE N = <<p, 1>>

C1_BuyStep ==
    /\ (ReplayActs /\ ReplayRows[op_i].Tipo = Compra) =>
           BuyResult(positions, positions', ReplayRows[op_i].Activo,
                     ReplayRows[op_i].Cantidad,
                     ReplayRows[op_i].Precio_Concertacion)
    /\ (SnapshotActs /\ SnapshotRows[snap_i].Tipo = Compra) =>
           BuyResult(initial_positions, initial_positions',
                     SnapshotRows[snap_i].Activo, SnapshotRows[snap_i].Cantidad,
                     SnapshotRows[snap_i].Precio_Concertacion)

\* C1: a Buy of q at p on a position (Q, A) gives quantity Q+q and average
\* cost (Q*A + q*p)/(Q+q) when Q+q > 0 and p otherwise, in the initial
\* snapshot and in the per-date replay.
C1_Buy == [][C1_BuyStep]_vars

\* a Buy has just been replayed on top of a snapshot holding of another
\* cost, and the average is a proper weighted mean (not an integer)
C1_Witness ==
    /\ Replayed
    /\ ReplayRows[op_i - 1].Tipo = Compra
    /\ ~IsNone(start_date)
    /\ QtyOf(initial_positions, ReplayRows[op_i - 1].Activo) > 0
    /\ AvgOf(positions, ReplayRows[op_i - 1].Activo)[2] # 1

\* before -> after is a Sell of q on asset a
SellResult(before, after, a, q) ==
    /\ QtyOf(after, a) = QtyOf(before, a) - q
    /\ AvgOf(after, a) = AvgOf(before, a)

C2_SellStep ==
    /\ (ReplayActs /\ ReplayRows[op_i].Tipo = Venta) =>
           SellResult(positions, positions', ReplayRows[op_i].Activo,
                      ReplayRows[op_i].Cantidad)
    /\ (SnapshotActs /\ SnapshotRows[snap_i].Tipo = Venta) =>
           SellResult(initial_positions, initial_positions',
                      SnapshotRows[snap_i].Activo, SnapshotRows[snap_i].Cantidad)

\* C2: a Sell of q lowers the quantity by exactly q, below zero when it
\* exceeds the holding, and leaves the average cost unchanged.
C2_Sell == [][C2_SellStep]_vars

\* a Sell larger than a positive holding has just been replayed
C2_Witness ==
    /\ Replayed
    /\ ReplayRows[op_i - 1].Tipo = Venta
    /\ QtyOf(positions, ReplayRows[op_i - 1].Activo) < 0
    /\ QtyOf(positions, ReplayRows[op_i - 1].Activo)
           + ReplayRows[op_i - 1].Cantidad > 0
    /\ AvgOf(positions, ReplayRows[op_i - 1].Activo) # <<0, 1>>

\* the kinds that are no trade
IsCashFlow(tipo) ==
    tipo # Compra /\ tipo # Venta /\ ~IsCouponDividend(tipo)
    /\ ~IsAmortization(tipo) /\ tipo = Flujo
IsIncomeOrFlow(tipo) ==
    tipo # Compra /\ tipo # Venta
    /\ (IsCouponDividend(tipo) \/ IsAmortization(tipo) \/ tipo = Flujo)

SamePositions(before, after) ==
    \A a \in Assets :
        QtyOf(after, a) = QtyOf(before, a) /\ AvgOf(after, a) = AvgOf(before, a)

C3_FrameStep ==
    /\ (ReplayActs /\ IsIncomeOrFlow(ReplayRows[op_i].Tipo)) =>
           /\ SamePositions(positions, positions')
           /\ cash_flow' = cash_flow
                  + (IF IsCashFlow(ReplayRows[op_i].Tipo)
                     THEN ReplayRows[op_i].Monto ELSE 0)
    /\ (SnapshotActs /\ IsIncomeOrFlow(SnapshotRows[snap_i].Tipo)) =>
           SamePositions(initial_positions, initial_positions')

\* C3: a Coupon, Dividend, Amortization or CashFlow changes the quantity and
\* the average cost of no asset; the amount of a CashFlow goes to the
\* cash-flow counter only.
C3_Frame == [][C3_FrameStep]_vars

\* an Amortization that names a nominal has just been replayed on a held asset
C3_Witness ==
    /\ Replayed
    /\ IsAmortization(ReplayRows[op_i - 1].Tipo)
    /\ ReplayRows[op_i - 1].Cantidad > 0
    /\ QtyOf(positions, ReplayRows[op_i - 1].Activo) > 0

\* the state right after the valuation of a date: positions and cash_flow are
\* those of the date, the last row of portfolio_values is its point
Valued == pc = "next_date" /\ date_i >= 1
ValuedDate == date_range[date_i]
ValuedRow == portfolio_values[date_i]

InWindow(f, d) ==
    f <= d /\ (IsNone(start_date) \/ f >= TheValue(start_date))

\* the sum of the amounts of the rows of operaciones with index in I
RECURSIVE MontoOver(_)
MontoOver(I) ==
    IF I = {} THEN 0
    ELSE LET i == CHOOSE x \in I : TRUE
         IN  operaciones[i].Monto + MontoOver(I \ {i})

FlujoRows == { i \in 1..Len(operaciones) : operaciones[i].Tipo = Flujo }

\* C4 as stated: Flujo_Cash of a date is the sum of the Flujo amounts dated
\* exactly that date.
C4_FlujoOfTheDay ==
    \A r \in 1..Len(portfolio_values) :
        portfolio_values[r].Flujo_Cash =
            MontoOver({ i \in FlujoRows :
                          operaciones[i].Fecha = portfolio_values[r].Fecha })

\* C4 (amended): Flujo_Cash of a date d is the running total of the Flujo
\* amounts dated on or before d (and, with a start date, not before it).
C4_FlujoRunningTotal ==
    \A r \in 1..Len(portfolio_values) :
        portfolio_values[r].Flujo_Cash =
            MontoOver({ i \in FlujoRows :
                          InWindow(operaciones[i].Fecha,
                                   portfolio_values[r].Fecha) })

\* a point whose date has a Flujo of its own and a Flujo of an earlier date
\* inside the window, while another Flujo lies before the start date
C4_Witness ==
    \E r \in 1..Len(portfolio_values) :
        LET d == portfolio_values[r].Fecha
        IN  /\ \E i \in FlujoRows : operaciones[i].Fecha = d
            /\ \E i \in FlujoRows :
                   operaciones[i].Fecha < d /\ InWindow(operaciones[i].Fecha, d)
            /\ \E i \in FlujoRows : ~InWindow(operaciones[i].Fecha, d)

\* the quotes of asset a dated on or before d, and the latest of them
QuotesUntil(a, d) ==
    { i \in 1..Len(precios) : precios[i].Activo = a /\ precios[i].Fecha <= d }
LatestQuote(a, d) ==
    CHOOSE i \in QuotesUntil(a, d) :
        \A j \in QuotesUntil(a, d) : precios[j].Fecha <= precios[i].Fecha

\* quantity times latest price over the assets of S held in pos and quoted
RECURSIVE HeldValue(_, _, _)
HeldValue(S, pos, d) ==
    IF S = {} THEN 0
    ELSE LET a == CHOOSE x \in S : TRUE
         IN  (IF QtyOf(pos, a) > 0 /\ QuotesUntil(a, d) # {}
              THEN QtyOf(pos, a) * precios[LatestQuote(a, d)].Precio
              ELSE 0)
             + HeldValue(S \ {a}, pos, d)

\* C5: market_value(d) is the sum, over the assets held (quantity > 0) that
\* have a price dated <= d, of quantity times the latest such price; a held
\* asset without such a price adds zero.
C5_MarketValue ==
    Valued => ValuedRow.Valor_Cartera = HeldValue(Assets, positions, ValuedDate)

\* a date on which one held asset has no price yet and another held asset is
\* valued at a price quoted on an earlier date
C5_Witness ==
    /\ Valued
    /\ \E a \in Assets :
           QtyOf(positions, a) > 0 /\ QuotesUntil(a, ValuedDate) = {}
    /\ \E a \in Assets :
           /\ QtyOf(positions, a) > 0
           /\ QuotesUntil(a, ValuedDate) # {}
           /\ precios[LatestQuote(a, ValuedDate)].Fecha < ValuedDate
    /\ ValuedRow.Valor_Cartera > 0

\* quantity times latest price over the quoted assets of S, sold short or not
RECURSIVE SignedValue(_, _, _)
SignedValue(S, pos, d) ==
    IF S = {} THEN 0
    ELSE LET a == CHOOSE x \in S : TRUE
         IN  (IF QuotesUntil(a, d) # {}
              THEN QtyOf(pos, a) * precios[LatestQuote(a, d)].Precio
              ELSE 0)
             + SignedValue(S \ {a}, pos, d)

\* C6 as stated: a negative quantity with a resolvable price adds the
\* negative amount quantity times price to market_value.
C6_NegativeValued ==
    Valued => ValuedRow.Valor_Cartera = SignedValue(Assets, positions, ValuedDate)

\* C6 (amended): the negative quantity an oversized Sell leaves is kept in
\* the position but adds zero to market_value: the value of the date is that
\* of the other assets.
C6_NegativeAddsZero ==
    Valued =>
        \A a \in Assets :
            QtyOf(positions, a) < 0 =>
                ValuedRow.Valor_Cartera =
                    HeldValue(Assets \ {a}, positions, ValuedDate)

\* a date valued with one asset sold short and quoted and another asset held
C6_Witness ==
    /\ Valued
    /\ \E a \in Assets :
           QtyOf(positions, a) < 0 /\ QuotesUntil(a, ValuedDate) # {}
    /\ ValuedRow.Valor_Cartera > 0

\* the valuation series once calculate_portfolio_value has returned
ValuationDone == ~IsNone(portfolio_data)
EarliestPrice ==
    CHOOSE d \in { precios[i].Fecha : i \in 1..Len(precios) } :
        \A i \in 1..Len(precios) : d <= precios[i].Fecha
LatestPrice ==
    CHOOSE d \in { precios[i].Fecha : i \in 1..Len(precios) } :
        \A i \in 1..Len(precios) : precios[i].Fecha <= d
FirstDay ==
    IF ~IsNone(start_date) /\ TheValue(start_date) > EarliestPrice
    THEN TheValue(start_date) ELSE EarliestPrice

\* the series is one point for each day first..last, in ascending order
CoversDays(series, first, last) ==
    /\ Len(series) = (IF last >= first THEN last - first + 1 ELSE 0)
    /\ \A i \in 1..Len(series) : series[i].Fecha = first + i - 1

\* C7 as stated: one point for each day from max(earliest price date, start
\* date) through the latest price date, and none after the latest price date.
C7_ThroughLatestPrice ==
    ValuationDone =>
        CoversDays(TheValue(portfolio_data), FirstDay, LatestPrice)

\* C7 (amended): one point for each day from max(earliest price date, start
\* date) through the latest price date, except that a start date later than
\* the latest price date gives the single point dated at the start date.
C7_DateCoverage ==
    ValuationDone =>
        CoversDays(TheValue(portfolio_data), FirstDay,
                   IF FirstDay > LatestPrice THEN FirstDay ELSE LatestPrice)

\* the start date is later than the latest price and the series is its point
C7_Witness ==
    /\ ValuationDone
    /\ ~IsNone(start_date)
    /\ TheValue(start_date) > LatestPrice
    /\ Len(TheValue(portfolio_data)) = 1
    /\ TheValue(portfolio_data)[1].Fecha = TheValue(start_date)

\* the replay of rows from pos, by the per-date replay loop
RECURSIVE ReplayAll(_, _)
ReplayAll(rows, pos) ==
    IF rows = <<>> THEN pos
    ELSE ReplayAll(Tail(rows), ReplayOp(pos, 0, Head(rows)).positions)

\* the positions at d of a calculator built without a start date
PositionsWithoutStart(d) == ReplayAll(OpsUntilDate(operaciones, None, d), <<>>)

\* C8: with a start date s, the snapshot of the transactions before s
\* followed by the replay of those in [s, d] gives the positions that the
\* replay of every transaction dated <= d gives without a start date; with
\* no transaction in [s, d] the date is valued from the snapshot holdings,
\* above zero when one of them is priced.
C8_SnapshotThenReplay ==
    (Valued /\ ~IsNone(start_date)) =>
        /\ SamePositions(PositionsWithoutStart(ValuedDate), positions)
        /\ (/\ ReplayRows = <<>>
            /\ \E a \in Assets :
                   /\ QtyOf(PositionsWithoutStart(ValuedDate), a) > 0
                   /\ QuotesUntil(a, ValuedDate) # {})
           => ValuedRow.Valor_Cartera > 0

\* a date on or after the start date with no transaction in the window,
\* valued above zero from a holding bought before the start date
C8_Witness ==
    /\ Valued
    /\ ~IsNone(start_date)
    /\ ReplayRows = <<>>
    /\ \E a \in Assets : QtyOf(initial_positions, a) > 0
    /\ ValuedRow.Valor_Cartera > 0

\* the loop of calculate_daily_returns takes the row row_i of portfolio_data
ReturnsActs == pc = "daily_returns" /\ row_i' = row_i + 1

\* the kinds of the elif chain of the Valuation and Attribution Engines
IsBuy(tipo) == tipo = Compra
IsSell(tipo) == tipo = Venta
IsIncome(tipo) == ~IsBuy(tipo) /\ ~IsSell(tipo) /\ IsCouponDividend(tipo)
IsCapitalReturn(tipo) ==
    ~IsBuy(tipo) /\ ~IsSell(tipo) /\ ~IsCouponDividend(tipo)
    /\ IsAmortization(tipo)

\* flow(d): Buy amounts - Sell amounts - Coupon/Dividend amounts -
\* Amortization amounts of the transactions dated d
FlowOfDay(d) ==
    LET Day == { i \in 1..Len(operaciones) : operaciones[i].Fecha = d }
    IN  MontoOver({ i \in Day : IsBuy(operaciones[i].Tipo) })
        - MontoOver({ i \in Day : IsSell(operaciones[i].Tipo) })
        - MontoOver({ i \in Day : IsIncome(operaciones[i].Tipo) })
        - MontoOver({ i \in Day : IsCapitalReturn(operaciones[i].Tipo) })

C9_Step ==
    (/\ ReturnsActs
     /\ ~IsNone(previous_value)
     /\ TheValue(previous_value) # 0) =>
        LET row == TheValue(portfolio_data)[row_i]
            prev == TheValue(previous_value)
            r == returns'[Len(returns')].Rendimiento_Diario
        IN  /\ r[1] * prev = r[2] * (row.Valor_Cartera - FlowOfDay(row.Fecha) - prev)
            /\ previous_value' = Some(row.Valor_Cartera)

\* C9: on a day whose previous_value is defined and not zero, daily_return =
\* (market_value - flow - previous_value) / previous_value with flow = Buys -
\* Sells - Coupons/Dividends - Amortizations of the day, and previous_value
\* becomes the market value of the day.
C9_GeneralStep == [][C9_Step]_vars

\* the rows the loop of calculate_daily_returns has built so far
HadValue(i) == returns[i].Valor_Cartera > 0
FirstValued == CHOOSE i \in 1..Len(returns) :
                   HadValue(i) /\ \A j \in 1..(i - 1) : ~HadValue(j)

\* C10: the first day with market_value > 0 has daily_return 0 and seeds
\* initial_value and previous_value; while previous_value is none or zero the
\* daily_return is 0, and previous_value is seeded again once market_value >
\* 0, so the first valued day after a day of value 0 has daily_return 0 too.
C10_Seeding ==
    /\ \A i \in 1..Len(returns) :
           (\A j \in 1..(i - 1) : ~HadValue(j)) =>
               returns[i].Rendimiento_Diario = <<0, 1>>
    /\ \A i \in 2..Len(returns) :
           returns[i - 1].Valor_Cartera = 0 =>
               returns[i].Rendimiento_Diario = <<0, 1>>
    /\ IF \E i \in 1..Len(returns) : HadValue(i)
       THEN /\ initial_value = <<returns[FirstValued].Valor_Cartera>>
            /\ previous_value = <<returns[Len(returns)].Valor_Cartera>>
       ELSE initial_value = <<>> /\ previous_value = <<>>

\* a valued day, then a day of value 0, then a valued day whose value moved
\* against the last valued day and whose transactions do not explain it
C10_Witness ==
    \E i \in 3..Len(returns) :
        /\ HadValue(i - 2)
        /\ returns[i - 1].Valor_Cartera = 0
        /\ HadValue(i)
        /\ returns[i].Value_Without_Cash_Flow # returns[i - 2].Valor_Cartera
        /\ returns[i].Rendimiento_Diario = <<0, 1>>

\* the returns frame once calculate_daily_returns has returned
ReturnsDone == ~IsNone(daily_returns)
ReturnsSeries == TheValue(daily_returns)
ValuationSeries == TheValue(portfolio_data)

\* C11: the returned series has exactly the valuation days with market_value
\* > 0 (no day of value 0, every day of positive value), in date order, and
\* every point carries the same initial_value, the market value of the first
\* retained point.
C11_PostProcessing ==
    ReturnsDone =>
        /\ \A i \in 1..Len(ValuationSeries) :
               (ValuationSeries[i].Valor_Cartera > 0) <=>
                   \E k \in 1..Len(ReturnsSeries) :
                       /\ ReturnsSeries[k].Fecha = ValuationSeries[i].Fecha
                       /\ ReturnsSeries[k].Valor_Cartera =
                              ValuationSeries[i].Valor_Cartera
        /\ \A k \in 1..Len(ReturnsSeries) :
               /\ ReturnsSeries[k].Valor_Cartera > 0
               /\ \E i \in 1..Len(ValuationSeries) :
                      ValuationSeries[i].Fecha = ReturnsSeries[k].Fecha
               /\ ReturnsSeries[k].Valor_Inicial = ReturnsSeries[1].Valor_Cartera
        /\ \A k \in 1..(Len(ReturnsSeries) - 1) :
               ReturnsSeries[k].Fecha < ReturnsSeries[k + 1].Fecha

\* a returned series that lost a day of value zero lying between two days it
\* kept, whose values differ
C11_Witness ==
    /\ ReturnsDone
    /\ \E k \in 1..(Len(ReturnsSeries) - 1) :
           /\ ReturnsSeries[k + 1].Fecha > ReturnsSeries[k].Fecha + 1
           /\ ReturnsSeries[k + 1].Valor_Cartera # ReturnsSeries[1].Valor_Cartera
    /\ \E i \in 1..Len(ValuationSeries) : ValuationSeries[i].Valor_Cartera = 0

\* the frame calculate_attribution_analysis returned, and the records in it
\* of an asset
AttributionDone == ~IsNone(attribution)
Records == TheValue(attribution)
RecordsOf(a) == { k \in 1..Len(Records) : Records[k].Activo = a }
RecordOf(a) == Records[CHOOSE k \in RecordsOf(a) : TRUE]

\* the rows of the ledger of an asset: all, its Buys, its income
RowsOf(a) == { i \in 1..Len(operaciones) : operaciones[i].Activo = a }
BuysOf(a) == { i \in RowsOf(a) : IsBuy(operaciones[i].Tipo) }
SellsOf(a) == { i \in RowsOf(a) : IsSell(operaciones[i].Tipo) }
IncomeOf(a) == { i \in RowsOf(a) : IsIncome(operaciones[i].Tipo) }

\* the units of asset a held after the first n rows of the ledger
RECURSIVE HeldAfter(_, _)
HeldAfter(a, n) ==
    IF n = 0 THEN 0
    ELSE HeldAfter(a, n - 1)
         + (IF n \in BuysOf(a) THEN operaciones[n].Cantidad
            ELSE IF n \in SellsOf(a) THEN -operaciones[n].Cantidad
            ELSE 0)

\* asset a was bought and every unit of it was sold, no Sell exceeding the
\* holding
FullySold(a) ==
    /\ BuysOf(a) # {}
    /\ SellsOf(a) # {}
    /\ \A n \in 0..Len(operaciones) : HeldAfter(a, n) >= 0
    /\ HeldAfter(a, Len(operaciones)) = 0

AssetRows == AssetOps(operaciones, assets[asset_i])
AttributionActs == pc = "asset_ops" /\ aop_i' = aop_i + 1
Attributed == pc = "asset_ops" /\ aop_i > 1

C13_SellStep ==
    (AttributionActs /\ AssetRows[aop_i].Tipo = Venta) =>
        LET q == AssetRows[aop_i].Cantidad
            p == AssetRows[aop_i].Precio_Concertacion
            Q == accumulators.current_quantity
            W == accumulators.weighted_price_sum
            G == accumulators.realized_gains
            Qn == accumulators'.current_quantity
            Wn == accumulators'.weighted_price_sum
            Gn == accumulators'.realized_gains
        IN  /\ IF Q > 0
               THEN (Gn[1] * G[2] - G[1] * Gn[2]) * W[2] * Q =
                        (p * W[2] * Q - W[1]) * q * Gn[2] * G[2]
               ELSE Gn = G
            /\ IF Q - q <= 0
               THEN Qn = 0 /\ Wn = <<0, 1>>
               ELSE /\ Qn = Q - q
                    /\ Wn[1] * W[2] * Q = W[1] * Wn[2] * Qn

\* C13: an Attribution Sell of q at p adds (p - weighted_cost_sum /
\* current_quantity) * q to the realized gain if current_quantity > 0 and
\* nothing otherwise; current_quantity then falls by q, and both it and
\* weighted_cost_sum are reset to 0 if the result is <= 0, else
\* weighted_cost_sum is rescaled so that the per-unit average cost is kept.
C13_AttributionSell == [][C13_SellStep]_vars

\* a part of a holding of mixed cost has just been sold at a gain
C13_Witness ==
    /\ Attributed
    /\ AssetRows[aop_i - 1].Tipo = Venta
    /\ accumulators.current_quantity > 0
    /\ accumulators.weighted_price_sum[2] # 1
    /\ accumulators.realized_gains[1] > 0

\* the holding of asset a after the first n rows of the ledger as the
\* Attribution rules of the specification give it: quantity, cost of the
\* quantity held, and the gains of the Sells made from a positive quantity
RECURSIVE Lot(_, _)
Lot(a, n) ==
    IF n = 0 THEN [quantity |-> 0, cost |-> <<0, 1>>, gain |-> <<0, 1>>]
    ELSE LET l == Lot(a, n - 1)
             q == operaciones[n].Cantidad
             p == operaciones[n].Precio_Concertacion
         IN  IF n \in BuysOf(a)
             THEN [l EXCEPT !.quantity = @ + q,
                            !.cost = FAdd(@, <<q * p, 1>>)]
             ELSE IF n \in SellsOf(a)
             THEN [quantity |-> IF l.quantity > q THEN l.quantity - q ELSE 0,
                   cost |-> IF l.quantity > q
                            THEN Frac(l.cost[1] * (l.quantity - q),
                                      l.cost[2] * l.quantity)
                            ELSE <<0, 1>>,
                   gain |-> IF l.quantity > 0
                            THEN FAdd(l.gain,
                                      Frac((p * l.quantity * l.cost[2]
                                            - l.cost[1]) * q,
                                           l.quantity * l.cost[2]))
                            ELSE l.gain]
             ELSE l

SellGains(a) == Lot(a, Len(operaciones)).gain

\* the ledger is a Buy, a Coupon and a Sell of the whole holding at a gain
IsBuyCouponSell ==
    /\ Len(operaciones) = 3
    /\ IsBuy(operaciones[1].Tipo)
    /\ IsIncome(operaciones[2].Tipo)
    /\ IsSell(operaciones[3].Tipo)
    /\ operaciones[3].Cantidad = operaciones[1].Cantidad
    /\ operaciones[3].Precio_Concertacion > operaciones[1].Precio_Concertacion

\* C14 as stated: the realized gain of a record is the sum over the Sells of
\* (sale price - average cost at the sale) * quantity sold, without the
\* coupon/dividend income.
C14_RealizedWithoutIncome ==
    AttributionDone =>
        \A a \in Assets :
            RecordsOf(a) # {} =>
                /\ RecordOf(a).Ganancias_Realizadas = SellGains(a)
                /\ RecordOf(a).Ingresos_Cupones_Dividendos =
                       MontoOver(IncomeOf(a))

\* C14 (amended): the realized gain of a record is the sum over the Sells of
\* (sale price - average cost at the sale) * quantity sold plus the
\* coupon/dividend income, which is reported as income too; Buy 2 at 3
\* (amount 6), Coupon 1, Sell 2 at 4 gives realized gain 3, income 1, total
\* invested 6 and total return 1/2.
C14_RealizedWithIncome ==
    AttributionDone =>
        \A a \in Assets :
            RecordsOf(a) # {} =>
                /\ RecordOf(a).Ganancias_Realizadas =
                       FAdd(SellGains(a), <<MontoOver(IncomeOf(a)), 1>>)
                /\ RecordOf(a).Ingresos_Cupones_Dividendos =
                       MontoOver(IncomeOf(a))
                /\ IsBuyCouponSell =>
                       /\ RecordOf(a).Ganancias_Realizadas = <<3, 1>>
                       /\ RecordOf(a).Ingresos_Cupones_Dividendos = 1
                       /\ RecordOf(a).Inversion_Total = 6
                       /\ RecordOf(a).Retorno_Total = <<1, 2>>

\* the record of the asset bought, paid a coupon and sold at a gain
C14_Witness ==
    /\ AttributionDone
    /\ IsBuyCouponSell
    /\ \E a \in Assets :
           /\ RecordsOf(a) # {}
           /\ SellGains(a) = <<2, 1>>
           /\ MontoOver(IncomeOf(a)) = 1

\* the loop over asset_ops is left and a record is appended
RecordActs ==
    pc = "asset_ops" /\ pc' = "attribution"
    /\ Len(attribution_data') = Len(attribution_data) + 1

C15_IncomeStep ==
    /\ (AttributionActs /\ IsIncome(AssetRows[aop_i].Tipo)) =>
           /\ accumulators'.coupon_dividend_income =
                  accumulators.coupon_dividend_income + AssetRows[aop_i].Monto
           /\ accumulators'.current_quantity = accumulators.current_quantity
           /\ accumulators'.weighted_price_sum = accumulators.weighted_price_sum
           /\ accumulators'.total_invested = accumulators.total_invested
    /\ RecordActs =>
           attribution_data'[Len(attribution_data')].Ingresos_Cupones_Dividendos
               = MontoOver(IncomeOf(assets[asset_i]))

\* C15: the income of an asset's record is the sum of the amounts of that
\* asset's Coupon/Dividend transactions, whatever the transactions of other
\* assets, and a Coupon/Dividend leaves current_quantity, weighted_cost_sum
\* and total_invested unchanged.
C15_Income == [][C15_IncomeStep]_vars

\* the record of a held asset that was paid a coupon, in a ledger where
\* another asset was paid a dividend
C15_Witness ==
    /\ pc = "attribution"
    /\ \E k \in 1..Len(attribution_data) :
           /\ attribution_data[k].Ingresos_Cupones_Dividendos > 0
           /\ attribution_data[k].Cantidad > 0
           /\ \E i \in 1..Len(operaciones) :
                  /\ operaciones[i].Activo # attribution_data[k].Activo
                  /\ IsIncome(operaciones[i].Tipo)
                  /\ operaciones[i].Monto > 0

AmortizationsOf(a) == { i \in RowsOf(a) : IsCapitalReturn(operaciones[i].Tipo) }

\* the market value of the last point of the valuation series
FinalMarketValue == ValuationSeries[Len(ValuationSeries)].Valor_Cartera

\* x is the quotient n / d of the fraction n and the integer d
IsQuotient(x, n, d) == x[1] * n[2] * d = n[1] * x[2]

RECURSIVE WeightsOver(_)
WeightsOver(n) ==
    IF n = 0 THEN <<0, 1>> ELSE FAdd(WeightsOver(n - 1), Records[n].Peso)

SumOfWeights == WeightsOver(Len(Records))

\* C17: in every Attribution run each weight lies in [0, 1] and the weights
\* of all records sum to at most 1.
C17_WeightsAtMostOne ==
    AttributionDone =>
        /\ \A k \in 1..Len(Records) :
               Records[k].Peso[1] >= 0 /\ Records[k].Peso[1] <= Records[k].Peso[2]
        /\ SumOfWeights[1] <= SumOfWeights[2]

\* the sum of the amounts invested in the first n records
RECURSIVE InvestedOver(_)
InvestedOver(n) ==
    IF n = 0 THEN 0 ELSE InvestedOver(n - 1) + Records[n].Inversion_Total

\* C18: the weight of an asset is its total invested amount over the total
\* invested amount of the portfolio, so a sold-out asset with a positive
\* invested amount has weight > 0 and the weights sum to exactly 1.
C18_WeightByInvestment ==
    (AttributionDone /\ Len(Records) > 0) =>
        /\ \A k \in 1..Len(Records) :
               /\ IsQuotient(Records[k].Peso, <<Records[k].Inversion_Total, 1>>,
                             InvestedOver(Len(Records)))
               /\ Records[k].Peso[1] > 0
        /\ SumOfWeights = <<1, 1>>

\* a label that no branch of the engines takes
IsUnknownKind(tipo) ==
    ~IsBuy(tipo) /\ ~IsSell(tipo) /\ ~IsCouponDividend(tipo)
    /\ ~IsAmortization(tipo) /\ tipo # Flujo

HasUnknownKind ==
    \E i \in 1..Len(operaciones) : IsUnknownKind(operaciones[i].Tipo)

\* the ledger without its rows of unknown kind
KnownOps ==
    LET Known(op) == ~IsUnknownKind(op.Tipo)
    IN  SelectSeq(operaciones, Known)

\* C19: a transaction of a kind that is not recognized is a no-op: every
\* position, every valuation point, every daily return and every Attribution
\* accumulator is what the ledger without that transaction gives.
C19_UnknownKindIsNoOp ==
    /\ (Valued /\ HasUnknownKind) =>
           /\ SamePositions(positions, StateAt(KnownOps, ValuedDate).positions)
           /\ ValuedRow = ValuationOf(KnownOps)[date_i]
    /\ (pc = "done" /\ HasUnknownKind) => ReturnsSeries = ReturnsOf(KnownOps)
    /\ (pc = "asset_ops" /\ aop_i > Len(AssetRows) /\ HasUnknownKind) =>
           accumulators = AccumulatorsOf(KnownOps, assets[asset_i])

\* returns and attribution of a ledger in which a row of unknown kind, naming
\* a quantity and an amount, follows the purchase of the asset it names
C19_Witness ==
    /\ ReturnsDone
    /\ AttributionDone
    /\ Len(ReturnsSeries) >= 2
    /\ Len(Records) > 0
    /\ \E i \in 2..Len(operaciones) :
           /\ IsUnknownKind(operaciones[i].Tipo)
           /\ operaciones[i].Cantidad > 0
           /\ operaciones[i].Monto > 0
           /\ operaciones[i].Fecha > ReturnsSeries[1].Fecha
           /\ operaciones[i].Fecha <= ReturnsSeries[Len(ReturnsSeries)].Fecha
           /\ IsBuy(operaciones[1].Tipo)
           /\ operaciones[1].Activo = operaciones[i].Activo

\* the label with every letter in lower case, letter by letter
Folded(t) ==
    [i \in 1..Len(t) |->
        CASE t[i] = "C" -> "c" [] t[i] = "U" -> "u" [] t[i] = "P" -> "p"
          [] t[i] = "O" -> "o" [] t[i] = "N" -> "n" [] t[i] = "V" -> "v"
          [] t[i] = "F" -> "f" [] t[i] = "D" -> "d" [] t[i] = "A" -> "a"
          [] OTHER -> t[i]]

\* the kind the specification gives a label: the first of its substrings the
\* lower-cased label holds
KindBySubstring(t) ==
    LET Has(w) == \E i \in 0..(Len(t) - Len(w)) :
                      \A j \in 1..Len(w) : Folded(t)[i + j] = w[j]
    IN  IF Has(<<"c", "o", "m", "p", "r", "a">>) THEN "Buy"
        ELSE IF Has(<<"v", "e", "n", "t", "a">>) THEN "Sell"
        ELSE IF Has(<<"c", "u", "p">>) THEN "Coupon"
        ELSE IF Has(<<"d", "i", "v", "i", "d", "e", "n", "d">>) THEN "Dividend"
        ELSE IF Has(<<"a", "m", "o", "r", "t", "i", "z">>) THEN "Amortization"
        ELSE IF Has(<<"f", "l", "u", "j", "o">>) THEN "CashFlow"
        ELSE "Unknown"

\* the Attribution accumulators after a Buy of q at p for the amount m
BoughtInto(acc, after, q, p, m) ==
    /\ after.total_invested = acc.total_invested + m
    /\ after.current_quantity = acc.current_quantity + q
    /\ after.weighted_price_sum = FAdd(acc.weighted_price_sum, <<q * p, 1>>)

C20_SubstringStep ==
    /\ ReplayActs =>
           LET row == ReplayRows[op_i]
               kind == KindBySubstring(row.Tipo)
           IN  /\ kind = "Buy" =>
                      BuyResult(positions, positions', row.Activo, row.Cantidad,
                                row.Precio_Concertacion)
               /\ kind = "Sell" =>
                      SellResult(positions, positions', row.Activo, row.Cantidad)
               /\ kind = "CashFlow" => cash_flow' = cash_flow + row.Monto
    /\ AttributionActs =>
           LET row == AssetRows[aop_i]
               kind == KindBySubstring(row.Tipo)
           IN  /\ kind = "Buy" =>
                      BoughtInto(accumulators, accumulators', row.Cantidad,
                                 row.Precio_Concertacion, row.Monto)
               /\ kind \in {"Coupon", "Dividend"} =>
                      accumulators'.coupon_dividend_income =
                          accumulators.coupon_dividend_income + row.Monto
               /\ kind = "Amortization" =>
                      accumulators'.amortizations =
                          accumulators.amortizations + row.Monto

\* C20 as stated: a label is recognized by substring whatever its letter
\* case: one holding 'compra' is replayed as a Buy, 'venta' as a Sell, 'cup'
\* as a Coupon, 'dividend' as a Dividend, 'amortiz' as an Amortization and
\* 'flujo' as a CashFlow.
C20_CaseInsensitive == [][C20_SubstringStep]_vars

\* the labels of the ledgers by the branch they take
ExactBuy == {Compra}
ExactSell == {Venta}
ExactCashFlow == {Flujo}
IncomeLabels == {Cupon, CuponUpper, Coupon, Dividendo}
AmortizationLabels == {Amortizacion}
OtherLabels == {CompraLower, Canje}

C20_LabelStep ==
    /\ ReplayActs =>
           LET row == ReplayRows[op_i]
           IN  /\ row.Tipo \in ExactBuy =>
                      BuyResult(positions, positions', row.Activo, row.Cantidad,
                                row.Precio_Concertacion)
               /\ row.Tipo \in ExactSell =>
                      SellResult(positions, positions', row.Activo, row.Cantidad)
               /\ row.Tipo \in ExactCashFlow =>
                      cash_flow' = cash_flow + row.Monto
               /\ row.Tipo \in IncomeLabels \cup AmortizationLabels
                               \cup OtherLabels =>
                      SamePositions(positions, positions')
                      /\ cash_flow' = cash_flow
    /\ AttributionActs =>
           LET row == AssetRows[aop_i]
           IN  /\ row.Tipo \in ExactBuy =>
                      BoughtInto(accumulators, accumulators', row.Cantidad,
                                 row.Precio_Concertacion, row.Monto)
               /\ row.Tipo \in IncomeLabels =>
                      accumulators' =
                          [accumulators EXCEPT
                              !.coupon_dividend_income = @ + row.Monto]
               /\ row.Tipo \in AmortizationLabels =>
                      accumulators' =
                          [accumulators EXCEPT !.amortizations = @ + row.Monto]
               /\ row.Tipo \in OtherLabels \cup ExactCashFlow =>
                      accumulators' = accumulators

\* C20 (amended): Buy, Sell and CashFlow are recognized by the exact trimmed
\* labels 'Compra', 'Venta' and 'Flujo' only, so 'compra' is a no-op; Coupon,
\* Dividend and Amortization are recognized by the replay and by Attribution
\* by their keywords whatever the letter case ('CUPON' as 'Cupon').
C20_LabelMatching == [][C20_LabelStep]_vars

\* Attribution has replayed 'CUPON' as income, after a 'compra' that added
\* nothing to the amount invested
C20_Witness ==
    /\ Attributed
    /\ AssetRows[aop_i - 1].Tipo = CuponUpper
    /\ accumulators.coupon_dividend_income = AssetRows[aop_i - 1].Monto
    /\ \E i \in 1..(aop_i - 2) : AssetRows[i].Tipo = CompraLower
    /\ accumulators.total_invested = 6
    /\ accumulators.current_quantity = 2

\* the unit prices of the Buys of asset a dated d or earlier: the Buys the
\* snapshot and the replay of date d have gone through
BuyPricesUntil(a, d) ==
    { operaciones[i].Precio_Concertacion :
        i \in { j \in BuysOf(a) : operaciones[j].Fecha <= d } }

\* C28: whenever the Position Tracker holds more than zero units of an asset,
\* its weighted-average cost lies between the lowest and the highest unit
\* price of the Buys replayed so far for that asset, Sells that exceed the
\* holding included.
C28_AverageWithinBuyPrices ==
    Valued =>
        \A a \in DOMAIN positions :
            QtyOf(positions, a) > 0 =>
                /\ BuyPricesUntil(a, ValuedDate) # {}
                /\ \E lo, hi \in BuyPricesUntil(a, ValuedDate) :
                       /\ lo * AvgOf(positions, a)[2] <= AvgOf(positions, a)[1]
                       /\ AvgOf(positions, a)[1] <= hi * AvgOf(positions, a)[2]

\* what asset a adds to the last point of the valuation series
FinalShare(a) ==
    IF a \in DOMAIN positions
    THEN AssetValue(positions[a], a, precios, date_range[Len(date_range)])
    ELSE 0

\* C27: the quantity of every Attribution record is the Position Tracker
\* quantity of its asset on the last valuation date, or 0 when that is
\* negative, and the record's current value is what the asset adds to the
\* final market value of the portfolio.
C27_AttributionAgreesWithTracker ==
    AttributionDone =>
        \A k \in 1..Len(Records) :
            /\ Records[k].Cantidad =
                   (IF QtyOf(positions, Records[k].Activo) > 0
                    THEN QtyOf(positions, Records[k].Activo) ELSE 0)
            /\ Records[k].Valor_Actual = FinalShare(Records[k].Activo)

\* the rows of the loop of calculate_daily_returns for date d
ReturnRowsOf(d) == { i \in 1..Len(returns) : returns[i].Fecha = d }

\* the Monto one row adds to daily_coupons and to daily_amortizations
CouponFlowOf(op) == DailyCoupons(<<op>>)
AmortizationFlowOf(op) == DailyAmortizations(<<op>>)

C26_SameKindStep ==
    AttributionActs =>
        LET op == AssetRows[aop_i]
            counted_income ==
                accumulators'.coupon_dividend_income
                    - accumulators.coupon_dividend_income
            counted_amortization ==
                accumulators'.amortizations - accumulators.amortizations
        IN  \* what Attribution counts as income, Returns subtracts on its day
            /\ counted_income # 0 =>
                   /\ CouponFlowOf(op) = counted_income
                   /\ \A i \in ReturnRowsOf(op.Fecha) :
                          returns[i].Daily_Cash_Flow = FlowOfDay(op.Fecha)
            \* the kind the Valuation Engine gives a row is the kind Returns
            \* and Attribution give it
            /\ IsIncome(op.Tipo) =>
                   /\ CouponFlowOf(op) = op.Monto
                   /\ AmortizationFlowOf(op) = 0
                   /\ counted_income = op.Monto
                   /\ counted_amortization = 0
            /\ IsCapitalReturn(op.Tipo) =>
                   /\ CouponFlowOf(op) = 0
                   /\ AmortizationFlowOf(op) = op.Monto
                   /\ counted_income = 0
                   /\ counted_amortization = op.Monto

\* C26: every engine gives a transaction label the same kind: a label the
\* Attribution Engine counts as coupon/dividend income is subtracted as
\* coupon/dividend flow by the Returns Engine on its day, and a label the
\* Valuation Engine takes as Coupon/Dividend or Amortization is taken as
\* that kind by the Returns and the Attribution Engines.
C26_SameClassification == [][C26_SameKindStep]_vars

\* the five ratios of a metrics dictionary
RatiosOf(m) ==
    {m.annualized_return, m.sharpe_ratio, m.sortino_ratio, m.calmar_ratio,
     m.win_rate}

\* C21: calculate_metrics completes without error for every return series,
\* the empty one included, and annualized_return, sharpe_ratio,
\* sortino_ratio, calmar_ratio and win_rate are all defined (none is NaN)
C21_RatiosDefined ==
    result.method = "calculate_metrics" =>
        /\ result.raised = ""
        /\ \A ratio \in RatiosOf(result.output) : ratio.kind # "nan"

\* the returns of a series are all equal
AllEqual(xs) == \A i, j \in 1..Len(xs) : xs[i] = xs[j]

\* the series calculate_metrics has just read
MeasuredReturns == ReturnsColumn(TheValue(daily_returns))

\* C22: for every return series whose returns are all equal, the series of
\* a single point included, calculate_metrics returns sharpe_ratio = 0 and
\* sortino_ratio = 0
C22_ZeroVolatility ==
    (result.method = "calculate_metrics" /\ AllEqual(MeasuredReturns)) =>
        /\ Len(MeasuredReturns) >= 1 => result.raised = ""
        /\ result.raised = "" =>
               /\ result.output.sharpe_ratio = Num(FromInt(0))
               /\ result.output.sortino_ratio = Num(FromInt(0))

\* calculate_metrics has measured a series of several equal returns of a
\* portfolio that traded
C22_Witness ==
    /\ result.method = "calculate_metrics"
    /\ result.raised = ""
    /\ operaciones # <<>>
    /\ Len(MeasuredReturns) >= 2
    /\ AllEqual(MeasuredReturns)
    /\ result.output.sharpe_ratio = Num(FromInt(0))

\* C23: a calculator constructed with an empty price series raises no
\* error, and its valuation, returns and attribution are empty
C23_EmptyPrices ==
    precios = <<>> =>
        /\ result.raised = ""
        /\ result.method \in {"calculate_portfolio_value",
                              "calculate_daily_returns",
                              "calculate_attribution_analysis"} =>
               result.output = <<>>

\* what calculate_metrics gives on a calculator just built from the inputs
FreshMetrics ==
    LET frame == ReturnsOf(operaciones)
    IN  IF frame = <<>>
        THEN IF environment.percentile_of_empty = "IndexError"
             THEN Raised("calculate_metrics", "IndexError")
             ELSE Returned("calculate_metrics", MetricsOf(frame, NaN))
        ELSE Returned("calculate_metrics",
                      MetricsOf(frame, Num(Percentile5(ReturnsColumn(frame)))))

\* what the first call of a method gives on a calculator just built from the
\* inputs
FreshResult(method) ==
    CASE method = "calculate_portfolio_value" ->
             Returned(method, ValuationOf(operaciones))
      [] method = "calculate_daily_returns" ->
             Returned(method, ReturnsOf(operaciones))
      [] method = "calculate_metrics" -> FreshMetrics
      [] method = "calculate_attribution_analysis" ->
             Returned(method,
                      AttributionOf(AttributedAssets(operaciones, start_date,
                                                     environment.set_order),
                                    operaciones, precios,
                                    ValuationOf(operaciones)))
      [] method = "get_performance_summary" ->
             Returned(method,
                      MonthlyMetrics(WithYearMonth(ReturnsOf(operaciones))))

PipelineMethods ==
    {"calculate_portfolio_value", "calculate_daily_returns",
     "calculate_metrics", "calculate_attribution_analysis",
     "get_performance_summary"}

\* C24: whatever was called before on the calculator, and however often,
\* each of calculate_portfolio_value, calculate_daily_returns,
\* calculate_metrics, calculate_attribution_analysis and
\* get_performance_summary gives what it gives when called first on a
\* calculator just built from the same inputs
C24_HistoryIndependent ==
    result.method \in PipelineMethods => result = FreshResult(result.method)

\* calculate_metrics has read returns stored by an earlier call and given
\* the column Año_Mes by get_performance_summary, of a portfolio whose value
\* moved
C24_Witness ==
    /\ result.method = "calculate_metrics"
    /\ result.raised = ""
    /\ Len(TheValue(daily_returns)) >= 2
    /\ "Ano_Mes" \in DOMAIN TheValue(daily_returns)[1]
    /\ result.output.total_return # Num(FromInt(0))

\* the positions before i of the points of the asset of point i
EarlierPointsOf(points, i) ==
    { j \in 1..(i - 1) : points[j].Activo = points[i].Activo }

\* the largest element of a set of numbers that is not empty
Latest(S) == CHOOSE j \in S : \A k \in S : k <= j

\* C30: in the result of calculate_individual_asset_performance the first
\* point of every asset has Rendimiento_Diario = 0 and every later point has
\* (price - the previous price of the same asset) / that previous price
C30_OwnPreviousPrice ==
    (result.method = "calculate_individual_asset_performance"
     /\ result.raised = "") =>
        LET points == result.output
        IN  \A i \in 1..Len(points) :
                LET earlier == EarlierPointsOf(points, i)
                IN  points[i].Rendimiento_Diario =
                        IF earlier = {} THEN FromInt(0)
                        ELSE LET previous_price ==
                                     points[Latest(earlier)].Precio
                             IN  Frac(points[i].Precio - previous_price,
                                      previous_price)

\* the price of every asset is the same on all the dates of the sheet
ConstantPrices ==
    \A i, j \in 1..Len(precios) :
        precios[i].Activo = precios[j].Activo =>
            precios[i].Precio = precios[j].Precio

\* every Buy and Sell has amount = quantity * the price of its asset
TradesAtMarket ==
    \A i \in 1..Len(operaciones) :
        operaciones[i].Tipo \in {Compra, Venta} =>
            \A j \in 1..Len(precios) :
                precios[j].Activo = operaciones[i].Activo =>
                    operaciones[i].Monto =
                        operaciones[i].Cantidad * precios[j].Precio

\* no Sell exceeds the held quantity
NoOversell ==
    \A n \in 1..Len(operaciones), a \in Assets : HeldAfter(a, n) >= 0

\* every traded asset has a price observation on or before its first trade
QuotedBeforeFirstTrade ==
    \A i \in 1..Len(operaciones) :
        \E j \in 1..Len(precios) :
            /\ precios[j].Activo = operaciones[i].Activo
            /\ precios[j].Fecha <= operaciones[i].Fecha

\* there is no Coupon, Dividend or Amortization transaction
NoIncome ==
    \A i \in 1..Len(operaciones) :
        /\ ~IsCouponDividend(operaciones[i].Tipo)
        /\ ~IsAmortization(operaciones[i].Tipo)
        /\ operaciones[i].Tipo \notin DailyCouponLabels

\* C25: if the price of every asset is the same on all dates, every Buy
\* and Sell has amount = quantity * that price, no Sell exceeds the held
\* quantity, every traded asset is quoted on or before its first trade and
\* there is no Coupon, Dividend or Amortization, then every daily return of
\* the returned series is 0
C25_ReturnPurity ==
    (/\ pc = "done"
     /\ ConstantPrices /\ TradesAtMarket /\ NoOversell
     /\ QuotedBeforeFirstTrade /\ NoIncome) =>
        \A i \in 1..Len(TheValue(daily_returns)) :
            TheValue(daily_returns)[i].Rendimiento_Diario = FromInt(0)

\* the returns of a calculator within the conditions that bought on one day
\* and sold on a later one while holding another asset: the value moved on
\* both days and every return is 0
C25_Witness ==
    /\ pc = "done"
    /\ ConstantPrices /\ TradesAtMarket /\ NoOversell
    /\ QuotedBeforeFirstTrade /\ NoIncome
    /\ Len(TheValue(daily_returns)) >= 3
    /\ \E i, j \in 1..Len(operaciones) :
           /\ operaciones[i].Tipo = Compra
           /\ operaciones[j].Tipo = Venta
           /\ operaciones[i].Fecha < operaciones[j].Fecha
    /\ \E i \in 2..Len(TheValue(daily_returns)) :
           /\ TheValue(daily_returns)[i].Daily_Cash_Flow < 0
           /\ TheValue(daily_returns)[i].Rendimiento_Diario = FromInt(0)

\* the ledgers that differ from l only by the order of the transactions of
\* a same date (l is sorted by Fecha)
SameDayOrders(l) ==
    LET n == Len(l)
        reordered == { [i \in 1..n |-> l[f[i]]] : f \in Permutations(1..n) }
    IN  { m \in reordered : \A i \in 1..(n - 1) : m[i].Fecha <= m[i + 1].Fecha }

\* the column Daily_Cash_Flow of a returns frame, date by date
DailyCashFlows(frame) ==
    [i \in 1..Len(frame) |->
        [Fecha |-> frame[i].Fecha,
         Daily_Cash_Flow |-> frame[i].Daily_Cash_Flow]]

\* C29: a ledger that differs from the calculator's only by the order of
\* the transactions of a same date has the same valuation series (market
\* value and cash flow of every date) and the same daily cash flows
C29_SameDayOrder ==
    pc = "done" =>
        \A l \in SameDayOrders(operaciones) :
            /\ ValuationOf(l) = TheValue(portfolio_data)
            /\ DailyCashFlows(ReturnsOf(l)) =
                   DailyCashFlows(TheValue(daily_returns))

\* the valuation of a ledger that sells an asset before buying it on the
\* same day, and holds it afterwards: another order of that day has no
\* oversell
C29_Witness ==
    /\ pc = "done"
    /\ \E i \in 1..(Len(operaciones) - 1) :
           /\ operaciones[i].Tipo = Venta
           /\ operaciones[i + 1].Tipo = Compra
           /\ operaciones[i].Activo = operaciones[i + 1].Activo
           /\ operaciones[i].Fecha = operaciones[i + 1].Fecha
           /\ HeldAfter(operaciones[i].Activo, i) < 0
    /\ \E l \in SameDayOrders(operaciones) : l # operaciones
    /\ \E i \in 1..Len(TheValue(portfolio_data)) :
           TheValue(portfolio_data)[i].Valor_Cartera > 0

====
